---- MODULE Spec2Model ----
(***************************************************************************)
(* Student alert / insight generation engine.                              *)
(*                                                                         *)
(* Numbers that the program holds as floats (percentages, GPA, confidence) *)
(* are held here in hundredths: 74.99 is 7499, 3.5 is 350, 0.95 is 95.     *)
(* Free text that the program inspects character by character (behavior    *)
(* notes) is a sequence of one-character strings; text that is only        *)
(* carried along (names, titles) is a string.                              *)
(***************************************************************************)
EXTENDS Integers, Sequences, FiniteSets, TLC

VARIABLES
    pc,          \* position of the alert request: idle, awaiting, done, rejected
    request,     \* the StudentAlertRequest received by the route
    agentInput, \* the StudentAlertInput handed to the agent
    agentModel,  \* AlertGeneratorAgent.model is not None
    backend,     \* what the generative backend did with the alert prompt
    genCalls,    \* calls of model.generate_content made for the alert request
    generated,   \* the list generate_alerts returned
    response,    \* what the route handed back to the caller
    ipc,         \* position of the insight request
    idata,       \* the domain data passed to generate_insight
    iused,       \* the domain data after mock substitution
    imodel,      \* GeminiInsightAgent.model is not None
    ibackend,    \* what the generative backend did with the insight prompts
    icalls,      \* calls of model.generate_content made for the insight request
    insight,     \* the InsightResponse generate_insight returned
    iprev,       \* history: the arguments and the result of the call before
    ianalysis,   \* the dict an analysis step returned, when the step is run on its own
    store,       \* the documents of the alerts collection
    inserted,    \* how many documents were ever inserted (the next _id)
    clock,       \* datetime.utcnow() as the last operation read it
    sreply       \* the last operation on the collection and what it returned

alertVars == <<pc, request, agentInput, agentModel, backend, genCalls, generated, response>>
insightVars == <<ipc, idata, iused, imodel, ibackend, icalls, insight, iprev, ianalysis>>
storeVars == <<store, inserted, clock, sreply>>
vars == <<pc, request, agentInput, agentModel, backend, genCalls, generated, response,
          ipc, idata, iused, imodel, ibackend, icalls, insight, iprev, ianalysis,
          store, inserted, clock, sreply>>

----------------------------------------------------------------------------
(* Bounds of the model *)

\* metric values are taken within Window hundredths of every threshold
Window == 1
\* behavior notes are taken with 0..PadMax filler characters in front
PadMax == 1
\* a generative response holds at most MaxItems items
MaxItems == 2
\* a generative recommendation list holds at most MaxLines numbered lines
MaxLines == 6

----------------------------------------------------------------------------
(* Values *)

None == "None"
NoneNotes == <<"None">>

Pct(n) == n * 100

Min2(a, b) == IF a <= b THEN a ELSE b

Near(t) == {t + d : d \in (0 - Window)..Window}

\* attendance percentages in [0, 100]
AttendanceValues ==
    {v \in {0, Pct(90), Pct(65), Pct(98), Pct(100)} \cup Near(Pct(75)) \cup Near(Pct(85))
           \cup Near(Pct(95)) : v >= 0 /\ v <= Pct(100)}

\* academic performance on the GPA scale, 0.00 .. 4.00
GpaValues ==
    {v \in {0, 380, 400} \cup Near(200) \cup Near(300) \cup Near(350) : v >= 0 /\ v <= 400}

\* academic performance on the marks scale, 0 .. 100
MarkValues ==
    {v \in {0, Pct(45), Pct(75), Pct(92), Pct(100)} \cup Near(Pct(50)) \cup Near(Pct(70))
           \cup Near(Pct(85)) : v >= 0 /\ v <= Pct(100)}

AcademicValues == GpaValues \cup MarkValues

ParticipationLevels == {"low", "medium", "high"}

RECURSIVE Filler(_)
Filler(n) == IF n = 0 THEN <<>> ELSE <<"x">> \o Filler(n - 1)

ExcellentAndRespectful ==
    <<"e", "x", "c", "e", "l", "l", "e", "n", "t", " ", "a", "n", "d", " ",
      "r", "e", "s", "p", "e", "c", "t", "f", "u", "l">>

NoteBases ==
    { <<>>,
      <<"d", "i", "s", "r", "u", "p", "t", "i", "v", "e">>,
      <<"R", "e", "s", "p", "e", "c", "t", "f", "u", "l">>,
      <<"g", "o", "o", "d", " ", "i", "s", "s", "u", "e">>,
      <<"q", "u", "i", "e", "t", " ", "k", "i", "d", "s">>,
      ExcellentAndRespectful }

BehaviorNotes == {Filler(n) \o b : n \in 0..PadMax, b \in NoteBases}

----------------------------------------------------------------------------
(* Text helpers: str.lower and the substring test `word in text` *)

UpperCase == <<"A", "B", "C", "D", "E", "F", "G", "H", "I", "J", "K", "L", "M",
               "N", "O", "P", "Q", "R", "S", "T", "U", "V", "W", "X", "Y", "Z">>
LowerCase == <<"a", "b", "c", "d", "e", "f", "g", "h", "i", "j", "k", "l", "m",
               "n", "o", "p", "q", "r", "s", "t", "u", "v", "w", "x", "y", "z">>

LowerChar(c) ==
    IF \E i \in 1..Len(UpperCase) : UpperCase[i] = c
    THEN LowerCase[CHOOSE i \in 1..Len(UpperCase) : UpperCase[i] = c]
    ELSE c

lower(s) == [i \in 1..Len(s) |-> LowerChar(s[i])]

Contains(s, w) ==
    \E i \in 1..(Len(s) - Len(w) + 1) : SubSeq(s, i, i + Len(w) - 1) = w

NegativeWords ==
    { <<"d", "i", "s", "r", "u", "p", "t", "i", "v", "e">>,
      <<"c", "o", "n", "c", "e", "r", "n", "i", "n", "g">>,
      <<"i", "s", "s", "u", "e">>,
      <<"p", "r", "o", "b", "l", "e", "m">>,
      <<"i", "n", "a", "p", "p", "r", "o", "p", "r", "i", "a", "t", "e">> }

PositiveWords ==
    { <<"e", "x", "c", "e", "l", "l", "e", "n", "t">>,
      <<"o", "u", "t", "s", "t", "a", "n", "d", "i", "n", "g">>,
      <<"p", "o", "s", "i", "t", "i", "v", "e">>,
      <<"g", "o", "o", "d">>,
      <<"r", "e", "s", "p", "e", "c", "t", "f", "u", "l">> }

AnyWordIn(words, text) == \E w \in words : Contains(text, w)

\* width of f"{v}" for a float v held in hundredths: 75.0, 74.99, 7.5, 100.0
FloatWidth(v) ==
    LET whole == v \div 100
        digits == IF whole >= 100 THEN 3 ELSE IF whole >= 10 THEN 2 ELSE 1
    IN digits + 1 + (IF v % 10 = 0 THEN 1 ELSE 2)

----------------------------------------------------------------------------
(* GeneratedAlert and the rule-based generator *)

GeneratedAlert(type, prio, cat, title, msgLen, action, nSuggestions, reason, conf) ==
    [alert_type |-> type, priority |-> prio, category |-> cat, title |-> title,
     message_len |-> msgLen, action_required |-> action,
     suggestions |-> nSuggestions, reasoning |-> reason, confidence_score |-> conf]

AttendanceAlertsLoose(student_data) ==
    LET v == student_data.attendance_percentage
        n == Len(student_data.name) + FloatWidth(v)
    IN IF v <= Pct(75)
       THEN <<GeneratedAlert("error", "high", "attendance", "Critical Attendance Alert",
                             144 + n, TRUE, 4, "below minimum threshold", 95)>>
       ELSE IF v <= Pct(85)
       THEN <<GeneratedAlert("warning", "medium", "attendance", "Attendance Needs Improvement",
                             108 + n, TRUE, 3, "below optimal range", 85)>>
       ELSE IF v > Pct(95)
       THEN <<GeneratedAlert("success", "low", "attendance", "Excellent Attendance Record",
                             124 + n, FALSE, 2, "exceeds excellence threshold", 90)>>
       ELSE <<>>

AttendanceAlerts(student_data) ==
    LET v == student_data.attendance_percentage
        n == Len(student_data.name) + FloatWidth(v)
    IN IF v < Pct(75)
       THEN <<GeneratedAlert("error", "high", "attendance", "Critical Attendance Alert",
                             144 + n, TRUE, 4, "below minimum threshold", 95)>>
       ELSE IF v < Pct(85)
       THEN <<GeneratedAlert("warning", "medium", "attendance", "Attendance Needs Improvement",
                             108 + n, TRUE, 3, "below optimal range", 85)>>
       ELSE IF v >= Pct(95)
       THEN <<GeneratedAlert("success", "low", "attendance", "Excellent Attendance Record",
                             124 + n, FALSE, 2, "exceeds excellence threshold", 90)>>
       ELSE <<>>

AcademicAlerts(student_data) ==
    LET v == student_data.academic_performance
        n == Len(student_data.name) + FloatWidth(v)
    IN IF v < 200 \/ v < Pct(50)
       THEN <<GeneratedAlert("error", "high", "academic", "Academic Performance Concern",
                             121 + n, TRUE, 4, "critically low", 92)>>
       ELSE IF v < 300 \/ v < Pct(70)
       THEN <<GeneratedAlert("warning", "medium", "academic",
                             "Academic Performance Below Average",
                             108 + n, TRUE, 3, "below average", 80)>>
       ELSE IF v >= 350 \/ v >= Pct(85)
       THEN <<GeneratedAlert("success", "low", "academic", "Outstanding Academic Performance",
                             122 + n, FALSE, 3, "excellent", 88)>>
       ELSE <<>>

ParticipationAlertsSwapped(student_data) ==
    LET n == Len(student_data.name)
    IN IF student_data.participation_level = "high"
       THEN <<GeneratedAlert("warning", "medium", "engagement", "Low Class Participation",
                             129 + n, TRUE, 4,
                             "Low participation level indicates engagement concerns", 75)>>
       ELSE IF student_data.participation_level = "low"
       THEN <<GeneratedAlert("success", "low", "engagement", "Excellent Class Engagement",
                             163 + n, FALSE, 2,
                             "High participation level shows strong engagement", 82)>>
       ELSE <<>>

ParticipationAlerts(student_data) ==
    LET n == Len(student_data.name)
    IN IF student_data.participation_level = "low"
       THEN <<GeneratedAlert("warning", "medium", "engagement", "Low Class Participation",
                             129 + n, TRUE, 4,
                             "Low participation level indicates engagement concerns", 75)>>
       ELSE IF student_data.participation_level = "high"
       THEN <<GeneratedAlert("success", "low", "engagement", "Excellent Class Engagement",
                             163 + n, FALSE, 2,
                             "High participation level shows strong engagement", 82)>>
       ELSE <<>>

BehaviorNegative(student_data) ==
    GeneratedAlert("warning", "high", "general", "Behavioral Attention Required",
                   122 + Len(student_data.name) + Len(student_data.behavior_notes), TRUE, 4,
                   "Behavior notes indicate concerns requiring attention", 85)

\* the positive alert asking for action
BehaviorPositiveNeedsAction(student_data) ==
    GeneratedAlert("success", "low", "general", "Positive Behavior Recognition",
                   107 + Len(student_data.name) + Len(student_data.behavior_notes), TRUE, 2,
                   "Behavior notes indicate positive conduct", 80)

BehaviorPositive(student_data) ==
    GeneratedAlert("success", "low", "general", "Positive Behavior Recognition",
                   107 + Len(student_data.name) + Len(student_data.behavior_notes), FALSE, 2,
                   "Behavior notes indicate positive conduct", 80)

BehaviorAlertsAtLeastTen(student_data) ==
    LET notes == student_data.behavior_notes
    IN IF notes # NoneNotes /\ Len(notes) >= 10
       THEN IF AnyWordIn(NegativeWords, lower(notes))
            THEN <<BehaviorNegative(student_data)>>
            ELSE IF AnyWordIn(PositiveWords, lower(notes))
            THEN <<BehaviorPositive(student_data)>>
            ELSE <<>>
       ELSE <<>>

BehaviorAlerts(student_data) ==
    LET notes == student_data.behavior_notes
    IN IF notes # NoneNotes /\ Len(notes) > 10
       THEN IF AnyWordIn(NegativeWords, lower(notes))
            THEN <<BehaviorNegative(student_data)>>
            ELSE IF AnyWordIn(PositiveWords, lower(notes))
            THEN <<BehaviorPositive(student_data)>>
            ELSE <<>>
       ELSE <<>>

_generate_rule_based_alerts_academic_first(student_data) ==
    AcademicAlerts(student_data) \o AttendanceAlerts(student_data)
        \o ParticipationAlerts(student_data) \o BehaviorAlerts(student_data)

_generate_rule_based_alerts(student_data) ==
    AttendanceAlerts(student_data) \o AcademicAlerts(student_data)
        \o ParticipationAlerts(student_data) \o BehaviorAlerts(student_data)

----------------------------------------------------------------------------
(* The generative backend as the alert adapter sees it *)

NoCall == [kind |-> "nocall", fence |-> "none", json |-> "invalid", items |-> <<>>]

\* items a response array may hold; fields_ok is FALSE for an item that is not
\* an object, lacks a field or holds a value of the wrong type
Item(ok, type, prio, cat, title, msgLen, action, nSuggestions, reason, conf) ==
    [fields_ok |-> ok, alert_type |-> type, priority |-> prio, category |-> cat,
     title |-> title, message_len |-> msgLen, action_required |-> action,
     suggestions |-> nSuggestions, reasoning |-> reason, confidence_score |-> conf]

ItemWarning ==
    Item(TRUE, "warning", "high", "attendance", "Low Attendance Alert", 80, TRUE, 3,
         "Attendance is significantly below the minimum requirement", 95)
ItemInfo ==
    Item(TRUE, "info", "low", "general", "Keep It Up", 60, FALSE, 2,
         "Steady results", 70)
ItemMissingField ==
    Item(FALSE, "warning", "medium", "academic", "Grades", 60, TRUE, 2, "Marks dropped", 80)
ItemBadPriority ==
    Item(TRUE, "warning", "critical", "academic", "Grades", 60, TRUE, 2, "Marks dropped", 80)
ItemBadConfidence ==
    Item(TRUE, "error", "high", "academic", "Grades", 60, TRUE, 2, "Marks dropped", 150)

ItemNoReasoning ==
    Item(TRUE, "info", "low", "general", "Note", 40, FALSE, 0, "", 50)

ResponseItems ==
    {ItemWarning, ItemInfo, ItemMissingField, ItemBadPriority, ItemBadConfidence, ItemNoReasoning}

RECURSIVE SeqsUpTo(_, _)
SeqsUpTo(S, n) ==
    IF n = 0 THEN {<<>>}
    ELSE LET shorter == SeqsUpTo(S, n - 1)
         IN shorter \cup {Append(s, x) : s \in {t \in shorter : Len(t) = n - 1}, x \in S}

\* fence: how the text is wrapped ("none", ```json, bare ```, or ``` with another tag)
\* json: what the text inside is ("invalid", a "number", an "object", an "array")
BackendTexts ==
    [kind : {"text"}, fence : {"none", "json", "bare", "tagged"},
     json : {"invalid", "number", "object"}, items : {<<>>}]
    \cup [kind : {"text"}, fence : {"none", "json", "bare", "tagged"},
          json : {"array"}, items : SeqsUpTo(ResponseItems, MaxItems)]

BackendRaises == [kind |-> "raises", fence |-> "none", json |-> "invalid", items |-> <<>>]
BackendHangs == [kind |-> "hangs", fence |-> "none", json |-> "invalid", items |-> <<>>]

\* lines 128-132: the text handed to json.loads after the fences are removed;
\* a fence with another language tag leaves the tag in front of the text
Unfenced(outcome) ==
    IF outcome.fence = "tagged" THEN "invalid" ELSE outcome.json

\* line 141: GeneratedAlert(**alert_dict) checks presence and types only
ItemParses(item) == item.fields_ok

ParseItem(item) ==
    GeneratedAlert(item.alert_type, item.priority, item.category, item.title,
                   item.message_len, item.action_required, item.suggestions,
                   item.reasoning, item.confidence_score)

\* a loop that appends every item, whether or not it could be built
ParseItemsKeepsAll(items) == [i \in 1..Len(items) |-> ParseItem(items[i])]

RECURSIVE ParseItems(_)
ParseItems(items) ==
    IF items = <<>> THEN <<>>
    ELSE (IF ItemParses(Head(items)) THEN <<ParseItem(Head(items))>> ELSE <<>>)
         \o ParseItems(Tail(items))

Returned(alerts) == [exc |-> "none", alerts |-> alerts]
Raised(kind) == [exc |-> kind, alerts |-> <<>>]

\* lines 125-147, the body of the try block
AiTryBodyKeepsEmpty(student_data, outcome) ==
    IF outcome.kind = "raises" THEN Raised("Exception")
    ELSE IF Unfenced(outcome) = "invalid" THEN Raised("JSONDecodeError")
    ELSE IF Unfenced(outcome) = "number" THEN Raised("TypeError")
    ELSE IF Unfenced(outcome) = "object" THEN Returned(<<>>)
    ELSE Returned(ParseItems(outcome.items))

AiTryBody(student_data, outcome) ==
    IF outcome.kind = "raises" THEN Raised("Exception")
    ELSE IF Unfenced(outcome) = "invalid" THEN Raised("JSONDecodeError")
    ELSE IF Unfenced(outcome) = "number" THEN Raised("TypeError")
    ELSE LET alerts == IF Unfenced(outcome) = "object" THEN <<>>
                       ELSE ParseItems(outcome.items)
         IN Returned(IF alerts # <<>> THEN alerts
                     ELSE _generate_rule_based_alerts(student_data))

_generate_ai_alerts(student_data, outcome) ==
    LET r == AiTryBody(student_data, outcome)
    IN IF r.exc = "none" THEN r
       ELSE Returned(_generate_rule_based_alerts(student_data))

generate_alerts_without_else(model, student_data, outcome) ==
    IF model
    THEN LET r == _generate_ai_alerts(student_data, outcome)
         IN IF r.exc = "none" THEN r
            ELSE Returned(_generate_rule_based_alerts(student_data))
    ELSE Returned(<<>>)

generate_alerts(model, student_data, outcome) ==
    IF model
    THEN LET r == _generate_ai_alerts(student_data, outcome)
         IN IF r.exc = "none" THEN r
            ELSE Returned(_generate_rule_based_alerts(student_data))
    ELSE Returned(_generate_rule_based_alerts(student_data))

RECURSIVE SumConfidence(_)
SumConfidence(alerts) ==
    IF alerts = <<>> THEN 0
    ELSE Head(alerts).confidence_score + SumConfidence(Tail(alerts))

get_alert_summary_counts_errors(alerts) ==
    [total_alerts |-> Len(alerts),
     high_priority_count |-> Len(SelectSeq(alerts, LAMBDA a : a.alert_type = "error")),
     action_required_count |-> Len(SelectSeq(alerts, LAMBDA a : a.action_required)),
     categories |->
         [academic |-> Len(SelectSeq(alerts, LAMBDA a : a.category = "academic")),
          attendance |-> Len(SelectSeq(alerts, LAMBDA a : a.category = "attendance")),
          engagement |-> Len(SelectSeq(alerts, LAMBDA a : a.category = "engagement")),
          general |-> Len(SelectSeq(alerts, LAMBDA a : a.category = "general"))],
     types |->
         [error |-> Len(SelectSeq(alerts, LAMBDA a : a.alert_type = "error")),
          warning |-> Len(SelectSeq(alerts, LAMBDA a : a.alert_type = "warning")),
          success |-> Len(SelectSeq(alerts, LAMBDA a : a.alert_type = "success")),
          info |-> Len(SelectSeq(alerts, LAMBDA a : a.alert_type = "info"))],
     average_confidence |-> IF alerts # <<>> THEN SumConfidence(alerts) \div Len(alerts)
                            ELSE 0]

get_alert_summary(alerts) ==
    [total_alerts |-> Len(alerts),
     high_priority_count |-> Len(SelectSeq(alerts, LAMBDA a : a.priority = "high")),
     action_required_count |-> Len(SelectSeq(alerts, LAMBDA a : a.action_required)),
     categories |->
         [academic |-> Len(SelectSeq(alerts, LAMBDA a : a.category = "academic")),
          attendance |-> Len(SelectSeq(alerts, LAMBDA a : a.category = "attendance")),
          engagement |-> Len(SelectSeq(alerts, LAMBDA a : a.category = "engagement")),
          general |-> Len(SelectSeq(alerts, LAMBDA a : a.category = "general"))],
     types |->
         [error |-> Len(SelectSeq(alerts, LAMBDA a : a.alert_type = "error")),
          warning |-> Len(SelectSeq(alerts, LAMBDA a : a.alert_type = "warning")),
          success |-> Len(SelectSeq(alerts, LAMBDA a : a.alert_type = "success")),
          info |-> Len(SelectSeq(alerts, LAMBDA a : a.alert_type = "info"))],
     average_confidence |-> IF alerts # <<>> THEN SumConfidence(alerts) \div Len(alerts)
                            ELSE 0]

----------------------------------------------------------------------------------------------------------------------------------------
(* The /generate route *)

AlertRequests ==
    [name : {"Ann"}, roll_number : {"STU1"},
     attendance_percentage : {Pct(65), Pct(90), Pct(100) + 1},
     academic_performance : {Pct(75), 380, Pct(100) + 1},
     behavior_notes : {NoneNotes, <<"x">> \o <<"d", "i", "s", "r", "u", "p", "t", "i", "v", "e">>},
     participation_level : {None, "low"}]

\* StudentAlertRequest's field constraints and validator
ValidRequest(req) ==
    /\ Len(req.name) >= 1 /\ Len(req.name) <= 100
    /\ Len(req.roll_number) >= 1 /\ Len(req.roll_number) <= 50
    /\ req.attendance_percentage >= 0 /\ req.attendance_percentage <= Pct(100)
    /\ req.academic_performance >= 0 /\ req.academic_performance <= Pct(100)
    /\ (req.behavior_notes = NoneNotes \/ Len(req.behavior_notes) <= 500)
    /\ req.participation_level \in ParticipationLevels \cup {None}

\* lines 40-48: the StudentAlertInput built from the request
student_input(req) ==
    [name |-> req.name, roll_number |-> req.roll_number,
     attendance_percentage |-> req.attendance_percentage,
     academic_performance |-> req.academic_performance,
     behavior_notes |-> IF req.behavior_notes = NoneNotes THEN <<>> ELSE req.behavior_notes,
     participation_level |-> IF req.participation_level = None THEN "medium"
                             ELSE req.participation_level]

\* GeneratedAlertResponse's field constraints
ResponseAccepts(alert) ==
    /\ alert.alert_type \in {"info", "warning", "error", "success"}
    /\ alert.priority \in {"low", "medium", "high"}
    /\ alert.category \in {"academic", "attendance", "engagement", "general"}
    /\ Len(alert.title) <= 200
    /\ alert.message_len <= 1000
    /\ alert.confidence_score >= 0 /\ alert.confidence_score <= 100

NoResponse == [status |-> 0, alerts |-> <<>>, summary |-> get_alert_summary(<<>>),
               ai_powered |-> FALSE]
ErrorResponse(code) == [status |-> code, alerts |-> <<>>, summary |-> get_alert_summary(<<>>),
                        ai_powered |-> FALSE]

\* lines 53-85: what the route returns once generate_alerts has returned
RouteResponse(model, result) ==
    IF result.exc # "none" THEN ErrorResponse(500)
    ELSE IF \E i \in 1..Len(result.alerts) : ~ResponseAccepts(result.alerts[i])
    THEN ErrorResponse(500)
    ELSE [status |-> 200, alerts |-> result.alerts,
          summary |-> get_alert_summary(result.alerts), ai_powered |-> model]

NoRequest ==
    [name |-> "", roll_number |-> "", attendance_percentage |-> 0,
     academic_performance |-> 0, behavior_notes |-> NoneNotes, participation_level |-> None]

NoResult == Returned(<<>>)

AlertIdle ==
    /\ pc = "idle"
    /\ request = NoRequest
    /\ agentInput = NoRequest
    /\ agentModel = FALSE
    /\ backend = NoCall
    /\ genCalls = 0
    /\ generated = NoResult
    /\ response = NoResponse

\* request validation fails before the handler runs
Reject(req) ==
    /\ pc = "idle"
    /\ ~ValidRequest(req)
    /\ pc' = "rejected"
    /\ request' = req
    /\ response' = ErrorResponse(422)
    /\ UNCHANGED <<agentInput, agentModel, backend, genCalls, generated>>
    /\ UNCHANGED <<insightVars, storeVars>>

\* the whole handler when AlertGeneratorAgent() ends with model = None
GenerateUnconfigured(req) ==
    /\ pc = "idle"
    /\ ValidRequest(req)
    /\ pc' = "done"
    /\ request' = req
    /\ agentInput' = student_input(req)
    /\ agentModel' = FALSE
    /\ generated' = generate_alerts(FALSE, student_input(req), NoCall)
    /\ response' = RouteResponse(FALSE, generated')
    /\ UNCHANGED <<backend, genCalls>>
    /\ UNCHANGED <<insightVars, storeVars>>

\* the handler up to model.generate_content(prompt)
GenerateConfigured(req) ==
    /\ pc = "idle"
    /\ ValidRequest(req)
    /\ pc' = "awaiting"
    /\ request' = req
    /\ agentInput' = student_input(req)
    /\ agentModel' = TRUE
    /\ genCalls' = genCalls + 1
    /\ UNCHANGED <<backend, generated, response>>
    /\ UNCHANGED <<insightVars, storeVars>>

\* generate_content returns or raises, and the handler runs to its end
BackendAnswers(outcome) ==
    /\ pc = "awaiting"
    /\ backend = NoCall
    /\ pc' = "done"
    /\ backend' = outcome
    /\ generated' = generate_alerts(agentModel, agentInput, outcome)
    /\ response' = RouteResponse(agentModel, generated')
    /\ UNCHANGED <<request, agentInput, agentModel, genCalls>>
    /\ UNCHANGED <<insightVars, storeVars>>

\* generate_content never returns: the call carries no timeout
BackendNeverAnswers ==
    /\ pc = "awaiting"
    /\ backend = NoCall
    /\ backend' = BackendHangs
    /\ UNCHANGED <<pc, request, agentInput, agentModel, genCalls, generated, response>>
    /\ UNCHANGED <<insightVars, storeVars>>

\* the response has gone out; the request's objects are dropped
Finish ==
    /\ pc \in {"done", "rejected"}
    /\ pc' = "idle"
    /\ request' = NoRequest
    /\ agentInput' = NoRequest
    /\ agentModel' = FALSE
    /\ backend' = NoCall
    /\ genCalls' = 0
    /\ generated' = NoResult
    /\ response' = NoResponse
    /\ UNCHANGED <<insightVars, storeVars>>

AlertNext ==
    \/ \E req \in AlertRequests : Reject(req)
    \/ \E req \in AlertRequests : GenerateUnconfigured(req)
    \/ \E req \in AlertRequests : GenerateConfigured(req)
    \/ \E outcome \in BackendTexts \cup {BackendRaises} : BackendAnswers(outcome)
    \/ BackendNeverAnswers
    \/ Finish

----------------------------------------------------------------------------
(* The rule-based generator alone, over the readings around every threshold *)

RuleInputs ==
    [name : {"Ann"}, roll_number : {"STU1"},
     attendance_percentage : AttendanceValues,
     academic_performance : AcademicValues,
     behavior_notes : BehaviorNotes \cup {NoneNotes},
     participation_level : ParticipationLevels \cup {None}]

RuleInit ==
    /\ pc = "idle"
    /\ request = NoRequest
    /\ agentInput \in RuleInputs
    /\ agentModel = FALSE
    /\ backend = NoCall
    /\ genCalls = 0
    /\ generated = NoResult
    /\ response = NoResponse

ApplyRules ==
    /\ pc = "idle"
    /\ pc' = "done"
    /\ generated' = Returned(_generate_rule_based_alerts(agentInput))
    /\ UNCHANGED <<request, agentInput, agentModel, backend, genCalls, response>>
    /\ UNCHANGED <<insightVars, storeVars>>

----------------------------------------------------------------------------
(* Domain data of an insight request.  present = FALSE is a missing (None or *)
(* empty) dict; gpa_is_number = FALSE is an overall_gpa that is null.       *)

Subject(name, percentage, trend) ==
    [subject |-> name, percentage |-> percentage, trend |-> trend]

NoAcademic == [present |-> FALSE, gpa_is_number |-> TRUE, overall_gpa |-> 0, subjects |-> <<>>]
NoAttendance == [present |-> FALSE, overall_percentage |-> 0, late_days |-> 0, absent_days |-> 0]
NoEngagement == [present |-> FALSE, overall_engagement_score |-> 0, total_study_hours |-> 0,
                 participation_score |-> 0]

AcademicData(gpa, subjects) ==
    [present |-> TRUE, gpa_is_number |-> TRUE, overall_gpa |-> gpa, subjects |-> subjects]
AttendanceData(rate, late, absent) ==
    [present |-> TRUE, overall_percentage |-> rate, late_days |-> late, absent_days |-> absent]
EngagementData(score, hours, participation) ==
    [present |-> TRUE, overall_engagement_score |-> score, total_study_hours |-> hours,
     participation_score |-> participation]

\* lines 357-384: the three mock generators; random.uniform and random.randint
\* are choices among the values on either side of every threshold read later
MockSubjects ==
    << Subject("Mathematics", 85, "down"), Subject("Science", 90, "up"),
       Subject("English", 92, "stable"), Subject("History", 78, "down"),
       Subject("Geography", 87, "up") >>

MockAcademic == {AcademicData(gpa, MockSubjects) : gpa \in {300, 380}}
MockAttendance ==
    {AttendanceData(rate, late, absent) :
        rate \in {Pct(88), Pct(92), Pct(96)}, late \in {2, 8}, absent \in {3, 12}}
MockEngagement ==
    {EngagementData(score, hours, part) :
        score \in {Pct(75), Pct(92)}, hours \in {Pct(18), Pct(28)}, part \in {Pct(80), Pct(95)}}

\* a dict whose overall_gpa is null
MalformedAcademic ==
    [present |-> TRUE, gpa_is_number |-> FALSE, overall_gpa |-> 0,
     subjects |-> <<Subject("Art", 70, "down")>>]

\* domain data a caller may pass
GivenAcademic ==
    { NoAcademic, MalformedAcademic,
      AcademicData(320, <<Subject("Art", 95, "stable")>>),
      AcademicData(360, <<Subject("Art", 70, "down"), Subject("Music", 80, "down"),
                          Subject("Latin", 60, "down")>>),
      AcademicData(250, <<Subject("Art", 70, "down"), Subject("Music", 91, "up")>>) }
GivenAttendance ==
    { NoAttendance, AttendanceData(Pct(92), 0, 1), AttendanceData(Pct(80), 6, 9) }
GivenEngagement ==
    { NoEngagement, EngagementData(Pct(75), Pct(20), Pct(80)),
      EngagementData(Pct(60), Pct(10), Pct(50)) }

----------------------------------------------------------------------------
(* The analysis of the domain data, lines 145-226.  An absent dict gives the *)
(* empty summary {}, read later through .get with its defaults.            *)

SubjectNames(subjects) == [i \in 1..Len(subjects) |-> subjects[i].subject]

EmptyAcademicSummary ==
    [present |-> FALSE, gpa_is_number |-> TRUE, overall_gpa |-> 0,
     strong_subjects |-> <<>>, weak_subjects |-> <<>>,
     improving_subjects |-> <<>>, declining_subjects |-> <<>>, total_subjects |-> 0]

_analyze_academic_performance(academic_data) ==
    IF ~academic_data.present THEN EmptyAcademicSummary
    ELSE [present |-> TRUE,
          gpa_is_number |-> academic_data.gpa_is_number,
          overall_gpa |-> academic_data.overall_gpa,
          strong_subjects |-> SubjectNames(SelectSeq(academic_data.subjects, LAMBDA x : x.percentage >= 90)),
          weak_subjects |-> SubjectNames(SelectSeq(academic_data.subjects, LAMBDA x : x.percentage < 75)),
          improving_subjects |-> SubjectNames(SelectSeq(academic_data.subjects, LAMBDA x : x.trend = "up")),
          declining_subjects |-> SubjectNames(SelectSeq(academic_data.subjects, LAMBDA x : x.trend = "down")),
          total_subjects |-> Len(academic_data.subjects)]

EmptyAttendanceSummary ==
    [present |-> FALSE, overall_rate |-> 0, late_days |-> 0, absent_days |-> 0,
     attendance_status |-> None, punctuality_concern |-> FALSE]

_analyze_attendance_patterns(attendance_data) ==
    IF ~attendance_data.present THEN EmptyAttendanceSummary
    ELSE [present |-> TRUE,
          overall_rate |-> attendance_data.overall_percentage,
          late_days |-> attendance_data.late_days,
          absent_days |-> attendance_data.absent_days,
          attendance_status |->
              IF attendance_data.overall_percentage >= Pct(95) THEN "excellent"
              ELSE IF attendance_data.overall_percentage >= Pct(90) THEN "good"
              ELSE "needs_improvement",
          punctuality_concern |-> attendance_data.late_days > 5]

EmptyEngagementSummary ==
    [present |-> FALSE, overall_score |-> 0, study_hours_per_week |-> 0,
     participation_score |-> 0, engagement_level |-> None, study_time_adequate |-> FALSE]

_analyze_engagement_metrics(engagement_data) ==
    IF ~engagement_data.present THEN EmptyEngagementSummary
    ELSE [present |-> TRUE,
          overall_score |-> engagement_data.overall_engagement_score,
          study_hours_per_week |-> engagement_data.total_study_hours,
          participation_score |-> engagement_data.participation_score,
          engagement_level |->
              IF engagement_data.overall_engagement_score >= Pct(85) THEN "high"
              ELSE IF engagement_data.overall_engagement_score >= Pct(70) THEN "moderate"
              ELSE "low",
          study_time_adequate |-> engagement_data.total_study_hours >= Pct(20)]

\* lines 228-264; None stands for a key that is not set
_identify_trends(academic_data, attendance_data, engagement_data) ==
    LET declining_count ==
            Len(SelectSeq(academic_data.subjects, LAMBDA s : s.trend = "down"))
        improving_count ==
            Len(SelectSeq(academic_data.subjects, LAMBDA s : s.trend = "up"))
    IN [academic_trend |->
            IF academic_data.present /\ academic_data.subjects # <<>>
            THEN IF declining_count > improving_count THEN "declining"
                 ELSE IF improving_count > declining_count THEN "improving"
                 ELSE "stable"
            ELSE None,
        attendance_trend |->
            IF attendance_data.present
            THEN IF attendance_data.overall_percentage >= Pct(95) THEN "excellent"
                 ELSE IF attendance_data.overall_percentage >= Pct(90) THEN "good"
                 ELSE "concerning"
            ELSE None,
        engagement_trend |->
            IF engagement_data.present
            THEN IF engagement_data.overall_engagement_score >= Pct(85) THEN "high"
                 ELSE IF engagement_data.overall_engagement_score >= Pct(70) THEN "moderate"
                 ELSE "low"
            ELSE None]

_analyze_student_data(academic_data, attendance_data, engagement_data) ==
    [academic_summary |-> _analyze_academic_performance(academic_data),
     attendance_summary |-> _analyze_attendance_patterns(attendance_data),
     engagement_summary |-> _analyze_engagement_metrics(engagement_data),
     trends |-> _identify_trends(academic_data, attendance_data, engagement_data)]

----------------------------------------------------------------------------
(* The rule-based insight generator, lines 266-329.  A narrative is the     *)
(* sequence of its sentences; a sentence or a recommendation that names    *)
(* subjects carries them.                                                  *)

Sentence(text, subjects) == [text |-> text, subjects |-> subjects]

FirstTwo(s) == SubSeq(s, 1, Min2(2, Len(s)))
FirstFive(s) == SubSeq(s, 1, Min2(5, Len(s)))

DefaultNarrative ==
    << Sentence("Overall performance is within normal ranges with opportunities for growth.",
                <<>>) >>

\* stands for the TypeError that line 273 raises when overall_gpa is None
TypeError == << Sentence("TypeError", <<>>) >>

_generate_rule_based_insights(analysis) ==
    LET academic == analysis.academic_summary
        attendance == analysis.attendance_summary
        engagement == analysis.engagement_summary
        insights ==
            (IF academic.overall_gpa > 350
             THEN <<Sentence("Your child is performing well academically with a strong GPA.",
                             <<>>)>>
             ELSE IF academic.declining_subjects # <<>>
             THEN <<Sentence("Academic performance shows some decline in",
                             FirstTwo(academic.declining_subjects))>>
             ELSE <<>>)
            \o (IF attendance.attendance_status = "excellent"
                THEN <<Sentence("Excellent attendance record supports consistent learning.",
                                <<>>)>>
                ELSE IF attendance.attendance_status = "needs_improvement"
                THEN <<Sentence("Attendance could be improved for better academic outcomes.",
                                <<>>)>>
                ELSE <<>>)
            \o (IF engagement.engagement_level = "high"
                THEN <<Sentence("High engagement levels show active participation in learning.",
                                <<>>)>>
                ELSE IF engagement.engagement_level = "low"
                THEN <<Sentence("Engagement could be enhanced through more interactive learning approaches.",
                                <<>>)>>
                ELSE <<>>)
    IN IF ~academic.gpa_is_number THEN TypeError
       ELSE IF insights # <<>> THEN insights ELSE DefaultNarrative

_generate_rule_based_recommendations_cut_first(analysis) ==
    LET academic == analysis.academic_summary
        attendance == analysis.attendance_summary
        engagement == analysis.engagement_summary
        tutoring == [i \in 1..Len(FirstTwo(academic.declining_subjects)) |->
                        Sentence("Consider additional tutoring or practice in",
                                 <<academic.declining_subjects[i]>>)]
        recommendations ==
            tutoring
            \o (IF academic.weak_subjects # <<>>
                THEN <<Sentence("Focus on strengthening performance in challenging subjects",
                                <<>>)>>
                ELSE <<>>)
            \o (IF attendance.attendance_status = "needs_improvement"
                THEN <<Sentence("Establish consistent morning routines to improve attendance",
                                <<>>)>>
                ELSE <<>>)
            \o (IF attendance.punctuality_concern
                THEN <<Sentence("Work on time management to reduce tardiness", <<>>)>>
                ELSE <<>>)
            \o (IF engagement.engagement_level = "low"
                THEN <<Sentence("Explore interactive learning methods to boost engagement",
                                <<>>)>>
                ELSE <<>>)
            \o (IF ~engagement.study_time_adequate
                THEN <<Sentence("Increase dedicated study time to meet grade-level expectations",
                                <<>>)>>
                ELSE <<>>)
    IN FirstFive(recommendations)
       \o << Sentence("Maintain regular communication with teachers", <<>>),
             Sentence("Celebrate achievements to maintain motivation", <<>>) >>

_generate_rule_based_recommendations(analysis) ==
    LET academic == analysis.academic_summary
        attendance == analysis.attendance_summary
        engagement == analysis.engagement_summary
        tutoring == [i \in 1..Len(FirstTwo(academic.declining_subjects)) |->
                        Sentence("Consider additional tutoring or practice in",
                                 <<academic.declining_subjects[i]>>)]
        recommendations ==
            tutoring
            \o (IF academic.weak_subjects # <<>>
                THEN <<Sentence("Focus on strengthening performance in challenging subjects",
                                <<>>)>>
                ELSE <<>>)
            \o (IF attendance.attendance_status = "needs_improvement"
                THEN <<Sentence("Establish consistent morning routines to improve attendance",
                                <<>>)>>
                ELSE <<>>)
            \o (IF attendance.punctuality_concern
                THEN <<Sentence("Work on time management to reduce tardiness", <<>>)>>
                ELSE <<>>)
            \o (IF engagement.engagement_level = "low"
                THEN <<Sentence("Explore interactive learning methods to boost engagement",
                                <<>>)>>
                ELSE <<>>)
            \o (IF ~engagement.study_time_adequate
                THEN <<Sentence("Increase dedicated study time to meet grade-level expectations",
                                <<>>)>>
                ELSE <<>>)
            \o << Sentence("Maintain regular communication with teachers", <<>>),
                  Sentence("Celebrate achievements to maintain motivation", <<>>) >>
    IN FirstFive(recommendations)

----------------------------------------------------------------------------
(* The generative backend as the insight adapter sees it *)

NoInsightCall == [kind |-> "nocall", blank |-> TRUE, lines |-> <<>>]
InsightRaises == [kind |-> "raises", blank |-> TRUE, lines |-> <<>>]
InsightHangs == [kind |-> "hangs", blank |-> TRUE, lines |-> <<>>]

\* answers to the narrative prompt: text that is blank after strip(), or prose
NarrativeTexts ==
    { [kind |-> "text", blank |-> b, lines |-> <<>>] : b \in BOOLEAN }

Line(kind, body) == [kind |-> kind, body |-> body]

NumberedLines(n) == [i \in 1..n |-> Line("numbered", ToString(i))]

\* answers to the recommendation prompt: an optional heading line, then
\* 0..MaxLines numbered lines
RecommendationTexts ==
    { [kind |-> "text", blank |-> FALSE,
       lines |-> (IF heading THEN <<Line("plain", "Here are my recommendations:")>> ELSE <<>>)
                 \o NumberedLines(n)] : heading \in BOOLEAN, n \in 0..MaxLines }

GeneratedNarrative == << Sentence("generated narrative", <<>>) >>

\* lines 100-105
_generate_gemini_insights(analysis, outcome) ==
    IF outcome.kind = "raises" THEN _generate_rule_based_insights(analysis)
    ELSE IF outcome.blank THEN <<>>
    ELSE GeneratedNarrative

\* lines 130-137: a line is kept when it starts with a digit, a dash or a bullet
\* and text is left once the marker is removed
LineKept(line) == line.kind \in {"numbered", "dashed", "bulleted"} /\ line.body # ""

RECURSIVE CleanLines(_)
CleanLines(lines) ==
    IF lines = <<>> THEN <<>>
    ELSE (IF LineKept(Head(lines))
          THEN <<Sentence("generated recommendation", <<Head(lines).body>>)>>
          ELSE <<>>)
         \o CleanLines(Tail(lines))

\* lines 124-143
_generate_gemini_recommendations(analysis, outcome) ==
    IF outcome.kind = "raises" THEN _generate_rule_based_recommendations(analysis)
    ELSE FirstFive(CleanLines(outcome.lines))

----------------------------------------------------------------------------
(* _fallback_insight, lines 331-355: random.choice of one of four narratives *)
(* and random.sample of three of five recommendations                       *)

fallback_insights ==
    { "Your child shows consistent academic performance with room for improvement in key areas.",
      "Overall progress is positive with steady development across multiple subjects.",
      "Current performance indicates good potential with opportunities for enhancement.",
      "Academic journey is on track with some areas requiring focused attention." }

fallback_recommendations ==
    { "Maintain regular study schedule",
      "Communicate regularly with teachers",
      "Provide supportive learning environment at home",
      "Encourage participation in class activities",
      "Monitor homework completion consistently" }

\* random.sample(fallback_recommendations, 3): three different ones, in any order
RandomSamples ==
    { t \in fallback_recommendations \X fallback_recommendations \X fallback_recommendations :
        t[1] # t[2] /\ t[1] # t[3] /\ t[2] # t[3] }

_fallback_insight ==
    { [insight |-> <<Sentence(text, <<>>)>>,
       recommendations |-> <<Sentence(t[1], <<>>), Sentence(t[2], <<>>), Sentence(t[3], <<>>)>>,
       confidence |-> 65] : text \in fallback_insights, t \in RandomSamples }

----------------------------------------------------------------------------
(* generate_insight, lines 32-75 *)

NoData == [academic |-> NoAcademic, attendance |-> NoAttendance, engagement |-> NoEngagement]
NoInsight == [insight |-> <<>>, recommendations |-> <<>>, confidence |-> 0]
NoAnalysis == [step |-> "none"]
NoPrevious == [called |-> FALSE, given |-> NoData, insight |-> <<>>, recommendations |-> <<>>]

InsightIdle ==
    /\ ipc = "idle"
    /\ idata = NoData
    /\ iused = NoData
    /\ imodel = FALSE
    /\ ibackend = <<NoInsightCall, NoInsightCall>>
    /\ icalls = 0
    /\ insight = NoInsight
    /\ iprev = NoPrevious
    /\ ianalysis = NoAnalysis

\* lines 44-49: data that is missing is replaced by mock data
Substitutes(given) ==
    { [academic |-> a, attendance |-> t, engagement |-> e] :
        a \in (IF given.academic.present THEN {given.academic} ELSE MockAcademic),
        t \in (IF given.attendance.present THEN {given.attendance} ELSE MockAttendance),
        e \in (IF given.engagement.present THEN {given.engagement} ELSE MockEngagement) }

Analysis(data) == _analyze_student_data(data.academic, data.attendance, data.engagement)

InsightRequests ==
    [academic : GivenAcademic, attendance : GivenAttendance, engagement : GivenEngagement]

\* the whole of generate_insight when the model is None
InsightUnconfigured(given, used) ==
    /\ ipc = "idle"
    /\ used \in Substitutes(given)
    /\ ipc' = "done"
    /\ idata' = given
    /\ iused' = used
    /\ imodel' = FALSE
    /\ insight' \in
          IF _generate_rule_based_insights(Analysis(used)) = TypeError
          THEN _fallback_insight
          ELSE {[insight |-> _generate_rule_based_insights(Analysis(used)),
                 recommendations |-> _generate_rule_based_recommendations(Analysis(used)),
                 confidence |-> 75]}
    /\ UNCHANGED <<ibackend, icalls>>
    /\ UNCHANGED <<iprev, ianalysis, alertVars, storeVars>>

\* generate_insight up to the first model.generate_content(prompt)
InsightConfigured(given, used) ==
    /\ ipc = "idle"
    /\ used \in Substitutes(given)
    /\ ipc' = "awaitNarrative"
    /\ idata' = given
    /\ iused' = used
    /\ imodel' = TRUE
    /\ icalls' = icalls + 1
    /\ UNCHANGED <<ibackend, insight>>
    /\ UNCHANGED <<iprev, ianalysis, alertVars, storeVars>>

\* the narrative call returns or raises; the recommendation call is made,
\* unless the rule-based narrative taken after a failed call raises too
NarrativeAnswers(outcome) ==
    /\ ipc = "awaitNarrative"
    /\ ibackend[1] = NoInsightCall
    /\ ibackend' = <<outcome, NoInsightCall>>
    /\ IF _generate_gemini_insights(Analysis(iused), outcome) = TypeError
       THEN /\ ipc' = "done"
            /\ insight' \in _fallback_insight
            /\ icalls' = icalls
       ELSE /\ ipc' = "awaitRecommendations"
            /\ insight' = [insight EXCEPT
                             !.insight = _generate_gemini_insights(Analysis(iused), outcome)]
            /\ icalls' = icalls + 1
    /\ UNCHANGED <<idata, iused, imodel>>
    /\ UNCHANGED <<iprev, ianalysis, alertVars, storeVars>>

\* the recommendation call returns or raises; generate_insight returns
RecommendationsAnswer(outcome) ==
    /\ ipc = "awaitRecommendations"
    /\ ibackend[2] = NoInsightCall
    /\ ipc' = "done"
    /\ ibackend' = <<ibackend[1], outcome>>
    /\ insight' = [insight EXCEPT
                     !.recommendations = _generate_gemini_recommendations(Analysis(iused), outcome),
                     !.confidence = 85]
    /\ UNCHANGED <<idata, iused, imodel, icalls>>
    /\ UNCHANGED <<iprev, ianalysis, alertVars, storeVars>>

\* a generate_content call that never returns: neither call carries a timeout
NarrativeNeverAnswers ==
    /\ ipc = "awaitNarrative"
    /\ ibackend[1] = NoInsightCall
    /\ ibackend' = <<InsightHangs, NoInsightCall>>
    /\ UNCHANGED <<ipc, idata, iused, imodel, icalls, insight>>
    /\ UNCHANGED <<iprev, ianalysis, alertVars, storeVars>>

RecommendationsNeverAnswer ==
    /\ ipc = "awaitRecommendations"
    /\ ibackend[2] = NoInsightCall
    /\ ibackend' = <<ibackend[1], InsightHangs>>
    /\ UNCHANGED <<ipc, idata, iused, imodel, icalls, insight>>
    /\ UNCHANGED <<iprev, ianalysis, alertVars, storeVars>>

InsightFinish ==
    /\ ipc = "done"
    /\ ipc' = "idle"
    /\ idata' = NoData
    /\ iused' = NoData
    /\ imodel' = FALSE
    /\ ibackend' = <<NoInsightCall, NoInsightCall>>
    /\ icalls' = 0
    /\ insight' = NoInsight
    /\ UNCHANGED <<iprev, ianalysis, alertVars, storeVars>>

InsightNext ==
    \/ \E given \in InsightRequests : \E used \in Substitutes(given) :
          InsightUnconfigured(given, used)
    \/ \E given \in InsightRequests : \E used \in Substitutes(given) :
          InsightConfigured(given, used)
    \/ \E outcome \in NarrativeTexts \cup {InsightRaises} : NarrativeAnswers(outcome)
    \/ \E outcome \in RecommendationTexts \cup {InsightRaises} : RecommendationsAnswer(outcome)
    \/ NarrativeNeverAnswers
    \/ RecommendationsNeverAnswer
    \/ InsightFinish

----------------------------------------------------------------------------
(* generate_insight called twice on an agent with no backend: the first     *)
(* call's arguments and result are remembered when the second is made       *)

RepeatRequests ==
    [academic : GivenAcademic,
     attendance : {AttendanceData(Pct(92), 0, 1)},
     engagement : {EngagementData(Pct(75), Pct(20), Pct(80))}]

\* the first call has returned; the caller keeps what it passed and received
FirstCallReturns ==
    /\ ipc = "done"
    /\ ~iprev.called
    /\ iprev' = [called |-> TRUE, given |-> idata, insight |-> insight.insight,
                 recommendations |-> insight.recommendations]
    /\ ipc' = "idle"
    /\ idata' = NoData
    /\ iused' = NoData
    /\ imodel' = FALSE
    /\ ibackend' = <<NoInsightCall, NoInsightCall>>
    /\ icalls' = 0
    /\ insight' = NoInsight
    /\ UNCHANGED <<ianalysis, alertVars, storeVars>>

RepeatNext ==
    \/ \E given \in RepeatRequests : \E used \in Substitutes(given) :
          InsightUnconfigured(given, used)
    \/ FirstCallReturns

----------------------------------------------------------------------------
(* InsightAgent, the LangGraph agent of insight_agent.py.  Its graph runs    *)
(* _collect_data, _analyze_data, _generate_insights and                     *)
(* _generate_recommendations in this order.                                 *)

\* lines 368-377: three subjects, a random GPA
InsightAgent_mock_subjects ==
    << Subject("Mathematics", 85, "down"), Subject("Science", 90, "up"),
       Subject("English", 92, "stable") >>

InsightAgent_mock_academic == {AcademicData(gpa, InsightAgent_mock_subjects) : gpa \in {300, 380}}

\* lines 105-112: data that is missing is replaced by mock data; the attendance
\* and engagement generators (lines 379-393) draw as those of lines 370-384 do
_collect_data(given) ==
    { [academic |-> a, attendance |-> t, engagement |-> e] :
        a \in (IF given.academic.present THEN {given.academic} ELSE InsightAgent_mock_academic),
        t \in (IF given.attendance.present THEN {given.attendance} ELSE MockAttendance),
        e \in (IF given.engagement.present THEN {given.engagement} ELSE MockEngagement) }

\* lines 236-257
_analyze_academic_trends(academic_data) ==
    IF ~academic_data.present
    THEN [present |-> FALSE, gpa_is_number |-> TRUE, overall_gpa |-> 0,
          declining_subjects |-> <<>>, improving_subjects |-> <<>>, total_subjects |-> 0]
    ELSE [present |-> TRUE,
          gpa_is_number |-> academic_data.gpa_is_number,
          overall_gpa |-> academic_data.overall_gpa,
          declining_subjects |-> SubjectNames(SelectSeq(academic_data.subjects, LAMBDA x : x.trend = "down")),
          improving_subjects |-> SubjectNames(SelectSeq(academic_data.subjects, LAMBDA x : x.trend = "up")),
          total_subjects |-> Len(academic_data.subjects)]

\* lines 259-274
InsightAgent_analyze_attendance_patterns(attendance_data) ==
    IF ~attendance_data.present
    THEN [present |-> FALSE, overall_rate |-> 0, late_days |-> 0, absent_days |-> 0,
          low_attendance |-> FALSE, frequent_tardiness |-> FALSE]
    ELSE [present |-> TRUE,
          overall_rate |-> attendance_data.overall_percentage,
          late_days |-> attendance_data.late_days,
          absent_days |-> attendance_data.absent_days,
          low_attendance |-> attendance_data.overall_percentage < Pct(90),
          frequent_tardiness |-> attendance_data.late_days > 5]

\* lines 276-294: low_engagement_subjects is never filled
_analyze_engagement_patterns(engagement_data) ==
    IF ~engagement_data.present
    THEN [present |-> FALSE, overall_score |-> 0, study_hours |-> 0, participation_score |-> 0,
          low_engagement_subjects |-> <<>>, sufficient_study_time |-> FALSE]
    ELSE [present |-> TRUE,
          overall_score |-> engagement_data.overall_engagement_score,
          study_hours |-> engagement_data.total_study_hours,
          participation_score |-> engagement_data.participation_score,
          low_engagement_subjects |-> <<>>,
          sufficient_study_time |-> engagement_data.total_study_hours >= Pct(20)]

\* lines 306, 308, 312: a comparison with a null GPA that `and` reaches raises
CorrelationsRaise(academic_data, attendance_data, engagement_data) ==
    /\ academic_data.present /\ ~academic_data.gpa_is_number
    /\ \/ attendance_data.overall_percentage > Pct(95)
       \/ attendance_data.overall_percentage < Pct(85)
       \/ engagement_data.overall_engagement_score > Pct(85)

\* lines 296-315; None stands for a key that is not set
_find_correlations(academic_data, attendance_data, engagement_data) ==
    LET attendance_rate == attendance_data.overall_percentage
        academic_gpa == academic_data.overall_gpa
        engagement_score == engagement_data.overall_engagement_score
    IN [attendance_academic |->
            IF attendance_rate > Pct(95) /\ academic_gpa > 350
            THEN "Strong positive correlation between attendance and academic performance"
            ELSE IF attendance_rate < Pct(85) /\ academic_gpa < 300
            THEN "Low attendance may be impacting academic performance"
            ELSE None,
        engagement_academic |->
            IF engagement_score > Pct(85) /\ academic_gpa > 350
            THEN "High engagement correlates with strong academic performance"
            ELSE None]

\* lines 116-131
_analyze_data(data) ==
    [academic_trends |-> _analyze_academic_trends(data.academic),
     attendance_patterns |-> InsightAgent_analyze_attendance_patterns(data.attendance),
     engagement_insights |-> _analyze_engagement_patterns(data.engagement),
     cross_domain_correlations |->
         _find_correlations(data.academic, data.attendance, data.engagement)]

\* lines 208-234; the comparison of line 215 raises on a null GPA
_rule_based_insights(analysis) ==
    LET gpa == analysis.academic_trends.overall_gpa
        attendance_rate == analysis.attendance_patterns.overall_rate
        engagement_score == analysis.engagement_insights.overall_score
        insights ==
            (IF gpa > 350
             THEN <<Sentence("Your child is performing well academically with a strong GPA.",
                             <<>>)>>
             ELSE IF gpa < 300
             THEN <<Sentence("Academic performance may need attention. Consider additional support.",
                             <<>>)>>
             ELSE <<>>)
            \o (IF attendance_rate > Pct(95)
                THEN <<Sentence("Excellent attendance record! Consistency is key to academic success.",
                                <<>>)>>
                ELSE IF attendance_rate < Pct(90)
                THEN <<Sentence("Attendance has room for improvement. Regular attendance is crucial for learning.",
                                <<>>)>>
                ELSE <<>>)
            \o (IF engagement_score > Pct(85)
                THEN <<Sentence("High engagement levels show your child is actively participating in learning.",
                                <<>>)>>
                ELSE IF engagement_score < Pct(70)
                THEN <<Sentence("Engagement could be improved. Consider discussing learning preferences with your child.",
                                <<>>)>>
                ELSE <<>>)
    IN IF ~analysis.academic_trends.gpa_is_number THEN TypeError
       ELSE IF insights # <<>> THEN insights
       ELSE <<Sentence("Overall performance is within normal ranges.", <<>>)>>

\* lines 179-206: the text of the LLM as it is, or the rule-based narrative
\* when the call raises
_llm_generate_insights(analysis, outcome) ==
    IF outcome.kind = "raises" THEN _rule_based_insights(analysis)
    ELSE IF outcome.blank THEN <<>>
    ELSE GeneratedNarrative

RECURSIVE TwoPerSubject(_, _, _)
TwoPerSubject(subjects, first, second) ==
    IF subjects = <<>> THEN <<>>
    ELSE <<Sentence(first, <<Head(subjects)>>), Sentence(second, <<Head(subjects)>>)>>
         \o TwoPerSubject(Tail(subjects), first, second)

\* lines 317-329
_calculate_confidence(analysis) ==
    Min2(80 + (IF analysis.academic_trends.present THEN 10 ELSE 0)
            + (IF analysis.attendance_patterns.present THEN 5 ELSE 0)
            + (IF analysis.engagement_insights.present THEN 5 ELSE 0), 100)

\* lines 146-177
_generate_recommendations(analysis) ==
    TwoPerSubject(analysis.academic_trends.declining_subjects,
                  "Consider additional tutoring in {subject}",
                  "Review {subject} homework completion patterns")
    \o (IF analysis.attendance_patterns.low_attendance
        THEN << Sentence("Establish a consistent morning routine", <<>>),
                Sentence("Contact school counselor about attendance concerns", <<>>) >>
        ELSE <<>>)
    \o TwoPerSubject(analysis.engagement_insights.low_engagement_subjects,
                     "Find engaging resources for {subject}",
                     "Discuss {subject} interests with your child")

mock_insights ==
    { "Your child shows consistent academic performance with room for improvement in mathematics.",
      "Attendance patterns are generally good, with occasional tardiness that could be addressed.",
      "Engagement levels are strong in science and English, but could be enhanced in history.",
      "Overall progress is positive with steady improvement over the past month." }

mock_recommendations ==
    { "Consider additional math practice sessions",
      "Establish a consistent morning routine",
      "Explore interactive history resources",
      "Maintain current study schedule",
      "Celebrate achievements in strong subjects" }

\* lines 342-366: random.choice of a narrative, random.sample of three recommendations
_mock_analysis ==
    { [insight |-> <<Sentence(text, <<>>)>>,
       recommendations |-> <<Sentence(t[1], <<>>), Sentence(t[2], <<>>), Sentence(t[3], <<>>)>>,
       confidence |-> 75] :
         text \in mock_insights,
         t \in { u \in mock_recommendations \X mock_recommendations \X mock_recommendations :
                   u[1] # u[2] /\ u[1] # u[3] /\ u[2] # u[3] } }

\* generate_insight with llm = None: _mock_analysis returns an InsightResponse,
\* result.get (line 89) raises on it, and the except returns a second draw
GraphUnconfigured(given) ==
    /\ ipc = "idle"
    /\ ipc' = "done"
    /\ idata' = given
    /\ iused' = given
    /\ imodel' = FALSE
    /\ insight' \in _mock_analysis
    /\ UNCHANGED <<ibackend, icalls>>
    /\ UNCHANGED <<iprev, ianalysis, alertVars, storeVars>>

\* generate_insight with llm set, when _analyze_data raises: the except of
\* line 96 returns _mock_analysis
GraphAnalysisFails(given, used) ==
    /\ ipc = "idle"
    /\ used \in _collect_data(given)
    /\ CorrelationsRaise(used.academic, used.attendance, used.engagement)
    /\ ipc' = "done"
    /\ idata' = given
    /\ iused' = used
    /\ imodel' = TRUE
    /\ insight' \in _mock_analysis
    /\ UNCHANGED <<ibackend, icalls>>
    /\ UNCHANGED <<iprev, ianalysis, alertVars, storeVars>>

\* generate_insight with llm set, up to llm.agenerate (line 203)
GraphConfigured(given, used) ==
    /\ ipc = "idle"
    /\ used \in _collect_data(given)
    /\ ~CorrelationsRaise(used.academic, used.attendance, used.engagement)
    /\ ipc' = "awaitLlm"
    /\ idata' = given
    /\ iused' = used
    /\ imodel' = TRUE
    /\ icalls' = icalls + 1
    /\ UNCHANGED <<ibackend, insight>>
    /\ UNCHANGED <<iprev, ianalysis, alertVars, storeVars>>

\* the LLM call returns or raises; the graph runs to its end and
\* generate_insight returns
LlmAnswers(outcome) ==
    /\ ipc = "awaitLlm"
    /\ ibackend[1] = NoInsightCall
    /\ ipc' = "done"
    /\ ibackend' = <<outcome, NoInsightCall>>
    /\ insight' \in
          IF _llm_generate_insights(_analyze_data(iused), outcome) = TypeError
          THEN _mock_analysis
          ELSE {[insight |-> _llm_generate_insights(_analyze_data(iused), outcome),
                 recommendations |-> _generate_recommendations(_analyze_data(iused)),
                 confidence |-> _calculate_confidence(_analyze_data(iused))]}
    /\ UNCHANGED <<idata, iused, imodel, icalls>>
    /\ UNCHANGED <<iprev, ianalysis, alertVars, storeVars>>

\* the LLM call never returns: agenerate carries no timeout
LlmNeverAnswers ==
    /\ ipc = "awaitLlm"
    /\ ibackend[1] = NoInsightCall
    /\ ibackend' = <<InsightHangs, NoInsightCall>>
    /\ UNCHANGED <<ipc, idata, iused, imodel, icalls, insight>>
    /\ UNCHANGED <<iprev, ianalysis, alertVars, storeVars>>

GraphNext ==
    \/ \E given \in InsightRequests : GraphUnconfigured(given)
    \/ \E given \in InsightRequests : \E used \in _collect_data(given) :
          GraphAnalysisFails(given, used)
    \/ \E given \in InsightRequests : \E used \in _collect_data(given) :
          GraphConfigured(given, used)
    \/ \E outcome \in NarrativeTexts \cup {InsightRaises} : LlmAnswers(outcome)
    \/ LlmNeverAnswers
    \/ InsightFinish

----------------------------------------------------------------------------
(* The analysis steps run on their own: _find_correlations of InsightAgent   *)
(* and _analyze_student_data of GeminiInsightAgent, each applied once to an *)
(* input drawn from the values on either side of the thresholds they read   *)

MaxSubjects == 3

SubjectPool == <<"Art", "Music", "Latin", "Greek", "Drama">>

Trends == {"up", "down", "stable"}

SubjectLists ==
    { [i \in 1..Len(s) |-> Subject(SubjectPool[i], s[i][1], s[i][2])] :
        s \in SeqsUpTo({74, 75, 89, 90} \X Trends, MaxSubjects) }

BoundaryAttendance ==
    { NoAttendance }
    \cup { AttendanceData(rate, late, 1) :
             rate \in Near(Pct(75)) \cup Near(Pct(85)) \cup Near(Pct(90)) \cup Near(Pct(95)),
             late \in {5, 6} }

BoundaryEngagement ==
    { NoEngagement }
    \cup { EngagementData(score, Pct(20), Pct(80)) : score \in Near(Pct(70)) \cup Near(Pct(85)) }

BoundaryAcademic ==
    { NoAcademic }
    \cup { AcademicData(gpa, <<Subject("Art", 80, "stable")>>) : gpa \in Near(300) \cup Near(350) }

AnalysisInputs ==
    [academic : BoundaryAcademic, attendance : BoundaryAttendance,
     engagement : BoundaryEngagement]
    \cup [academic : {AcademicData(320, subjects) : subjects \in SubjectLists},
          attendance : {NoAttendance}, engagement : {NoEngagement}]

AnalysisInit ==
    /\ ipc = "idle"
    /\ idata \in AnalysisInputs
    /\ iused = NoData
    /\ imodel = FALSE
    /\ ibackend = <<NoInsightCall, NoInsightCall>>
    /\ icalls = 0
    /\ insight = NoInsight
    /\ iprev = NoPrevious
    /\ ianalysis = NoAnalysis

\* InsightAgent._find_correlations, insight_agent.py lines 296-315
FindCorrelations ==
    /\ ipc = "idle"
    /\ ipc' = "analysed"
    /\ ianalysis' = [step |-> "_find_correlations",
                     result |-> _find_correlations(idata.academic, idata.attendance,
                                                   idata.engagement)]
    /\ UNCHANGED <<idata, iused, imodel, ibackend, icalls, insight, iprev>>
    /\ UNCHANGED <<alertVars, storeVars>>

\* GeminiInsightAgent._analyze_student_data, lines 145-155
AnalyzeStudentData ==
    /\ ipc = "idle"
    /\ ipc' = "analysed"
    /\ ianalysis' = [step |-> "_analyze_student_data", result |-> Analysis(idata)]
    /\ UNCHANGED <<idata, iused, imodel, ibackend, icalls, insight, iprev>>
    /\ UNCHANGED <<alertVars, storeVars>>

AnalysisNext ==
    \/ FindCorrelations
    \/ AnalyzeStudentData

----------------------------------------------------------------------------
(* The alerts collection and AlertController, alert_controller.py.  A      *)
(* document keeps the fields the queries read; read_at and updated_at are  *)
(* written and never read, and are left out.                               *)

MaxStored == 2
MaxClock == 2

Parents == {"p1", "p2"}

AlertDoc(id, alert_create, now) ==
    [id |-> id, parent_id |-> alert_create.parent_id, title |-> alert_create.title,
     type |-> alert_create.type, priority |-> alert_create.priority,
     category |-> alert_create.category, read |-> FALSE,
     created_at |-> now]

\* alert.py lines 7-17: the constraints of AlertBase
AlertBaseAccepts(alert_create) ==
    /\ alert_create.title # ""
    /\ alert_create.message_len >= 1 /\ alert_create.message_len <= 1000
    /\ alert_create.type \in {"info", "warning", "error", "success"}
    /\ alert_create.priority \in {"low", "medium", "high"}
    /\ alert_create.category \in {"academic", "attendance", "engagement", "general"}

\* create_alert, lines 17-35: read is False whatever the caller sent
create_alert(docs, alert_create, id, now) == docs \cup {AlertDoc(id, alert_create, now)}

\* the place of a priority in the order the database sorts strings by (the
\* comparison of their bytes): "high" < "low" < "medium"
StringRank(priority) ==
    CASE priority = "high" -> 1
      [] priority = "low" -> 2
      [] priority = "medium" -> 3
      [] OTHER -> 0

\* sort([("priority", -1), ("created_at", -1)]): a must come before b
SortsBefore(a, b) ==
    \/ StringRank(a.priority) > StringRank(b.priority)
    \/ StringRank(a.priority) = StringRank(b.priority) /\ a.created_at > b.created_at

\* lines 50-59
Matches(doc, parent_id, unread_only, category, priority) ==
    /\ doc.parent_id = parent_id
    /\ unread_only => ~doc.read
    /\ category # None => doc.category = category
    /\ priority # None => doc.priority = priority

\* the orders a cursor may deliver the documents in: documents equal on both
\* sort keys come in either order
SortedCursors(docs) ==
    { c \in [1..Cardinality(docs) -> docs] :
        /\ \A i, j \in 1..Cardinality(docs) : i # j => c[i] # c[j]
        /\ \A i, j \in 1..Cardinality(docs) : i < j => ~SortsBefore(c[j], c[i]) }

SkipLimit(c, skip, limit) ==
    IF skip >= Len(c) THEN <<>> ELSE SubSeq(c, skip + 1, Min2(skip + limit, Len(c)))

\* get_alerts_by_parent, lines 37-71: the lists the call may return
get_alerts_by_parent(docs, parent_id, skip, limit, unread_only, category, priority) ==
    { SkipLimit(c, skip, limit) :
        c \in SortedCursors({d \in docs : Matches(d, parent_id, unread_only, category, priority)}) }

\* alert ids a caller may send: the ids given out so far, those not given out
\* yet, and 0 for a string that is not an ObjectId
AlertIds == 0..MaxStored

\* mark_alert_as_read with the owner left out of the filter
mark_alert_as_read_any_owner(docs, alert_id, parent_id, changed) ==
    LET hit == {d \in docs : d.id = alert_id}
    IN IF alert_id = 0 THEN [docs |-> docs, result |-> FALSE]
       ELSE [docs |-> (docs \ hit) \cup {[d EXCEPT !.read = TRUE] : d \in hit},
             result |-> \E d \in hit : ~d.read \/ changed]

\* mark_alert_as_read, lines 88-109: update_one on {_id, parent_id}.
\* ObjectId raises on a string that is no id (alert_id = 0).  modified_count
\* counts the document when the $set changed it: always when it was unread,
\* and when it was read already if the time written differs from the time
\* it holds (changed).
mark_alert_as_read(docs, alert_id, parent_id, changed) ==
    LET hit == {d \in docs : d.id = alert_id /\ d.parent_id = parent_id}
    IN IF alert_id = 0 THEN [docs |-> docs, result |-> FALSE]
       ELSE [docs |-> (docs \ hit) \cup {[d EXCEPT !.read = TRUE] : d \in hit},
             result |-> \E d \in hit : ~d.read \/ changed]

\* mark_all_alerts_as_read, lines 111-126
mark_all_alerts_as_read(docs, parent_id) ==
    LET hit == {d \in docs : d.parent_id = parent_id /\ ~d.read}
    IN [docs |-> (docs \ hit) \cup {[d EXCEPT !.read = TRUE] : d \in hit},
        result |-> Cardinality(hit)]

\* delete_alert with the owner left out of the filter
delete_alert_any_owner(docs, alert_id, parent_id) ==
    LET hit == {d \in docs : d.id = alert_id}
    IN IF alert_id = 0 THEN [docs |-> docs, result |-> FALSE]
       ELSE [docs |-> docs \ hit, result |-> hit # {}]

\* delete_alert, lines 128-142: delete_one on {_id, parent_id}
delete_alert(docs, alert_id, parent_id) ==
    LET hit == {d \in docs : d.id = alert_id /\ d.parent_id = parent_id}
    IN IF alert_id = 0 THEN [docs |-> docs, result |-> FALSE]
       ELSE [docs |-> docs \ hit, result |-> hit # {}]

\* routes/alert_generator.py lines 121-137: the AlertCreate built from a
\* generated alert
AlertCreateOf(alert, parent_id) ==
    [parent_id |-> parent_id, title |-> alert.title, message_len |-> alert.message_len,
     type |-> alert.alert_type, priority |-> alert.priority, category |-> alert.category]

\* routes/alert_generator.py lines 120-140: the loop that saves the generated
\* alerts one by one; the k-th alert is saved at time now + (k - 1) * step.
\* AlertCreate raises on an alert AlertBase does not accept, insert_one
\* raises at the alert numbered failAt (0: the database never fails); either
\* ends the loop and leaves the documents inserted so far.
RECURSIVE SaveLoop(_, _, _, _, _, _, _, _)
SaveLoop(docs, alerts, k, parent_id, id, now, step, failAt) ==
    IF k > Len(alerts) THEN [docs |-> docs, saved |-> k - 1, raised |-> FALSE]
    ELSE IF ~AlertBaseAccepts(AlertCreateOf(alerts[k], parent_id)) \/ failAt = k
    THEN [docs |-> docs, saved |-> k - 1, raised |-> TRUE]
    ELSE SaveLoop(create_alert(docs, AlertCreateOf(alerts[k], parent_id), id, now),
                  alerts, k + 1, parent_id, id + 1, now + step, step, failAt)

NoStoreReply == [op |-> "none"]

StoreIdle ==
    /\ store = {}
    /\ inserted = 0
    /\ clock = 1
    /\ sreply = NoStoreReply

\* the time an operation reads: the clock may have advanced since the last one
Nows == {t \in {clock, clock + 1} : t <= MaxClock}

\* bodies a caller may post to the create route
CreateInputs ==
    [parent_id : Parents, title : {"Note"}, message_len : {40}, type : {"info"},
     priority : {"low", "medium", "high"}, category : {"general"}]

\* POST /, routes/alerts.py lines 121-140
CreateAlert(alert_data, now) ==
    /\ inserted < MaxStored
    /\ store' = create_alert(store, alert_data, inserted + 1, now)
    /\ inserted' = inserted + 1
    /\ clock' = now
    /\ sreply' = [op |-> "create_alert", status |-> 200]
    /\ UNCHANGED <<alertVars, insightVars>>

\* the request of the generate-and-save route used here: its rule-based list
\* is the one academic success alert
SaveRequest ==
    [name |-> "Ann", roll_number |-> "STU1", attendance_percentage |-> Pct(90),
     academic_performance |-> Pct(75), behavior_notes |-> <<>>,
     participation_level |-> "medium"]

SaveOutcomes ==
    {BackendRaises}
    \cup [kind : {"text"}, fence : {"none"}, json : {"array"},
          items : SeqsUpTo({ItemWarning, ItemInfo, ItemBadPriority}, MaxItems)]

\* POST /generate-and-save, routes/alert_generator.py lines 87-163
GenerateAndSave(user, model, outcome, now, step, failAt) ==
    LET alerts == generate_alerts(model, student_input(SaveRequest), outcome).alerts
        run == SaveLoop(store, alerts, 1, user, inserted + 1, now, step, failAt)
    IN /\ inserted + Len(alerts) <= MaxStored
       /\ now + step * Len(alerts) <= MaxClock + 1
       /\ failAt <= Len(alerts)
       /\ store' = run.docs
       /\ inserted' = inserted + run.saved
       /\ clock' = IF run.saved = 0 THEN now ELSE now + step * (run.saved - 1)
       /\ sreply' = [op |-> "generate_and_save", user |-> user, generated |-> alerts,
                     \* history: the ids given out before the run
                     before |-> inserted,
                     status |-> IF run.raised THEN 500 ELSE 200,
                     saved |-> IF run.raised THEN 0 ELSE run.saved]
       /\ UNCHANGED <<alertVars, insightVars>>

\* GET /{parent_id}, routes/alerts.py lines 12-42, for parent_id = current_user.id
GetAlerts(user, skip, limit, unread_only, category, priority) ==
    /\ \E alerts \in get_alerts_by_parent(store, user, skip, limit, unread_only,
                                          category, priority) :
          sreply' = [op |-> "get_alerts_by_parent", user |-> user, skip |-> skip,
                     limit |-> limit, alerts |-> alerts]
    /\ UNCHANGED <<store, inserted, clock>>
    /\ UNCHANGED <<alertVars, insightVars>>

\* PATCH /{alert_id}/read, routes/alerts.py lines 63-80
MarkAlertAsRead(alert_id, user, changed) ==
    /\ store' = mark_alert_as_read(store, alert_id, user, changed).docs
    /\ sreply' = [op |-> "mark_alert_as_read", user |-> user, alert_id |-> alert_id,
                  result |-> mark_alert_as_read(store, alert_id, user, changed).result]
    /\ UNCHANGED <<inserted, clock>>
    /\ UNCHANGED <<alertVars, insightVars>>

\* PATCH /{parent_id}/read-all, routes/alerts.py lines 82-100
MarkAllAlertsAsRead(user) ==
    /\ store' = mark_all_alerts_as_read(store, user).docs
    /\ sreply' = [op |-> "mark_all_alerts_as_read", user |-> user,
                  result |-> mark_all_alerts_as_read(store, user).result]
    /\ UNCHANGED <<inserted, clock>>
    /\ UNCHANGED <<alertVars, insightVars>>

\* DELETE /{alert_id}, routes/alerts.py lines 102-119
DeleteAlert(alert_id, user) ==
    /\ store' = delete_alert(store, alert_id, user).docs
    /\ sreply' = [op |-> "delete_alert", user |-> user, alert_id |-> alert_id,
                  result |-> delete_alert(store, alert_id, user).result]
    /\ UNCHANGED <<inserted, clock>>
    /\ UNCHANGED <<alertVars, insightVars>>

\* the routes that write the collection
StoreNext ==
    \/ \E alert_data \in {a \in CreateInputs : a.priority = "high"} : \E now \in Nows :
          CreateAlert(alert_data, now)
    \/ \E alert_id \in AlertIds : \E user \in Parents : \E changed \in BOOLEAN :
          MarkAlertAsRead(alert_id, user, changed)
    \/ \E user \in Parents : MarkAllAlertsAsRead(user)
    \/ \E alert_id \in AlertIds : \E user \in Parents : DeleteAlert(alert_id, user)

\* alerts of every owner and priority are created, read and listed
QueryNext ==
    \/ \E alert_data \in CreateInputs : \E now \in Nows : CreateAlert(alert_data, now)
    \/ \E user \in Parents : MarkAllAlertsAsRead(user)
    \/ \E user \in Parents : \E skip \in 0..1 : \E limit \in {1, MaxStored} :
       \E unread_only \in BOOLEAN : \E priority \in {None, "high"} :
          GetAlerts(user, skip, limit, unread_only, None, priority)

SaveNext ==
    \E user \in Parents : \E now \in Nows : \E step \in 0..1 : \E failAt \in 0..MaxStored :
        \/ GenerateAndSave(user, FALSE, NoCall, now, step, failAt)
        \/ \E outcome \in SaveOutcomes : GenerateAndSave(user, TRUE, outcome, now, step, failAt)

----------------------------------------------------------------------------
(* Specifications *)

Init == AlertIdle /\ InsightIdle /\ StoreIdle

Next == AlertNext

\* the alert route
Spec == Init /\ [][Next]_vars

\* the alert route, with every step that can be taken taken in the end; the
\* backend owes no answer
FairSpec == Spec /\ WF_vars(Next)

\* the insight agent
InsightSpec == Init /\ [][InsightNext]_vars

\* the rule-based alert generator applied to one input
RuleStart == RuleInit /\ InsightIdle /\ StoreIdle

RuleSpec == RuleStart /\ [][ApplyRules]_vars

\* the LangGraph insight agent
GraphSpec == Init /\ [][GraphNext]_vars

\* one analysis step applied to one input
AnalysisStart == AlertIdle /\ AnalysisInit /\ StoreIdle

AnalysisSpec == AnalysisStart /\ [][AnalysisNext]_vars

\* the alerts collection under the routes that write it
StoreSpec == Init /\ [][StoreNext]_vars

\* the alerts collection under the listing route
QuerySpec == Init /\ [][QueryNext]_vars

\* the alerts collection under the generate-and-save route
SaveSpec == Init /\ [][SaveNext]_vars

\* two calls of generate_insight, no backend configured
RepeatSpec == Init /\ [][RepeatNext]_vars

----------------------------------------------------------------------------
(* Properties *)

\* the (alert_type, priority) pairs of the alerts of one category, in order
Outcomes(alerts, category) ==
    LET chosen == SelectSeq(alerts, LAMBDA a : a.category = category)
    IN [i \in 1..Len(chosen) |-> <<chosen[i].alert_type, chosen[i].priority>>]

RuleBased == Returned(_generate_rule_based_alerts(agentInput))

\* C1: when the agent's model is None, generate_alerts makes no call to the
\* generative backend and returns exactly the rule-based generator's list for
\* the same StudentAlertInput.
C1_UnconfiguredIsRuleBased ==
    (pc = "done" /\ ~agentModel) =>
        /\ genCalls = 0
        /\ backend = NoCall
        /\ generated = RuleBased

C1_Witness ==
    /\ pc = "done"
    /\ ~agentModel
    /\ genCalls = 0
    /\ Len(generated.alerts) >= 2

AllItemsFail(items) == \A i \in 1..Len(items) : ~items[i].fields_ok

\* the call raised, or the text handed to the JSON parser does not parse, or
\* the parsed value holds no item that passes GeneratedAlert's validation
AdapterFailed ==
    \/ backend.kind = "raises"
    \/ /\ backend.kind = "text"
       /\ \/ backend.json = "invalid"
          \/ backend.fence = "tagged"
          \/ backend.json \in {"number", "object"}
          \/ backend.json = "array" /\ AllItemsFail(backend.items)

\* C2: when the backend is configured but the call raises, or the response is
\* not parseable JSON, or no item passes per-item validation, generate_alerts
\* raises nothing and returns exactly the rule-based generator's output.
C2_FailedBackendFallsBack ==
    (pc = "done" /\ agentModel /\ AdapterFailed) =>
        /\ generated.exc = "none"
        /\ generated = RuleBased

C2_Witness ==
    /\ pc = "done"
    /\ agentModel
    /\ backend.kind = "text" /\ backend.fence = "json" /\ backend.json = "array"
    /\ Len(backend.items) = 2
    /\ AllItemsFail(backend.items)
    /\ generated = RuleBased
    /\ generated.alerts # <<>>

\* C3: for every well-formed request, whatever the generative backend returns
\* or however it fails, the generate endpoint returns an alert result and
\* never an error response.
C3_GenerateNeverFails ==
    pc = "done" => response.status = 200

\* C4: every alert request eventually returns a result even if the generative
\* backend never responds.
C4_EveryRequestReturns ==
    (pc = "awaiting") ~> (pc = "done")

\* C5: when the backend is not configured, generate_insight makes no generative
\* call and returns the rule-based narrative and recommendations for the
\* analysis of the request's own domain data.
C5_UnconfiguredInsightIsRuleBased ==
    (ipc = "done" /\ ~imodel) =>
        /\ icalls = 0
        /\ insight.insight = _generate_rule_based_insights(Analysis(idata))
        /\ insight.recommendations = _generate_rule_based_recommendations(Analysis(idata))

\* C6: for every attendance percentage v in [0,100] the rule-based generator
\* emits exactly one attendance outcome: error/high if v < 75, warning/medium
\* if 75 <= v < 85, nothing if 85 <= v < 95, success/low if v >= 95.
C6_AttendanceBands ==
    pc = "done" =>
        LET v == agentInput.attendance_percentage
            out == Outcomes(generated.alerts, "attendance")
        IN /\ v < 7500 => out = << <<"error", "high">> >>
           /\ (7500 <= v /\ v < 8500) => out = << <<"warning", "medium">> >>
           /\ (8500 <= v /\ v < 9500) => out = <<>>
           /\ v >= 9500 => out = << <<"success", "low">> >>

C6_Witness ==
    /\ pc = "done"
    /\ agentInput.attendance_percentage = 7500
    /\ Outcomes(generated.alerts, "attendance") = << <<"warning", "medium">> >>

\* C7: for every academic performance value v on the 0-100 scale the
\* rule-based generator emits error/high if v < 50, warning/medium if
\* 50 <= v < 70, success/low if v >= 85 and no academic alert if 70 <= v < 85;
\* attendance 90, academic 75, participation medium, no notes gives no alert.
C7_MarksBands ==
    pc = "done" =>
        LET v == agentInput.academic_performance
            out == Outcomes(generated.alerts, "academic")
        IN /\ v < 5000 => out = << <<"error", "high">> >>
           /\ (5000 <= v /\ v < 7000) => out = << <<"warning", "medium">> >>
           /\ (7000 <= v /\ v < 8500) => out = <<>>
           /\ v >= 8500 => out = << <<"success", "low">> >>
           /\ (/\ agentInput.attendance_percentage = 9000
               /\ v = 7500
               /\ agentInput.participation_level = "medium"
               /\ agentInput.behavior_notes = <<>>) => generated.alerts = <<>>

\* C8: for every academic performance value v on the 0-4.0 GPA scale the
\* rule-based generator emits error/high if v < 2.0, warning/medium if
\* 2.0 <= v < 3.0, success/low if v >= 3.5 and no academic alert if
\* 3.0 <= v < 3.5.
C8_GpaBands ==
    (pc = "done" /\ agentInput.academic_performance <= 400) =>
        LET v == agentInput.academic_performance
            out == Outcomes(generated.alerts, "academic")
        IN /\ v < 200 => out = << <<"error", "high">> >>
           /\ (200 <= v /\ v < 300) => out = << <<"warning", "medium">> >>
           /\ (300 <= v /\ v < 350) => out = <<>>
           /\ v >= 350 => out = << <<"success", "low">> >>

\* what a reader finds in each of the notes the inputs are built from
NoteClass(base) ==
    IF base = <<"d", "i", "s", "r", "u", "p", "t", "i", "v", "e">> THEN "negative"
    ELSE IF base = <<"R", "e", "s", "p", "e", "c", "t", "f", "u", "l">> THEN "positive"
    ELSE IF base = ExcellentAndRespectful THEN "positive"
    ELSE IF base = <<"g", "o", "o", "d", " ", "i", "s", "s", "u", "e">> THEN "both"
    ELSE "neither"

\* C9: behavior notes are evaluated only when longer than 10 characters; then
\* a case-insensitive match of a negative keyword gives one warning/high alert
\* of category general, otherwise a match of a positive keyword gives one
\* success/low alert, negative taking precedence, and there is no behavior
\* alert when neither matches or the notes have 10 or fewer characters.
C9_BehaviorNotes ==
    pc = "done" =>
        LET notes == agentInput.behavior_notes
            out == Outcomes(generated.alerts, "general")
        IN /\ notes = NoneNotes => out = <<>>
           /\ \A n \in 0..PadMax, b \in NoteBases :
                 notes = Filler(n) \o b =>
                    out = IF n + Len(b) <= 10 THEN <<>>
                          ELSE IF NoteClass(b) \in {"negative", "both"}
                          THEN << <<"warning", "high">> >>
                          ELSE IF NoteClass(b) = "positive"
                          THEN << <<"success", "low">> >>
                          ELSE <<>>

C9_Witness ==
    /\ pc = "done"
    /\ agentInput.behavior_notes = <<"x", "g", "o", "o", "d", " ", "i", "s", "s", "u", "e">>
    /\ Outcomes(generated.alerts, "general") = << <<"warning", "high">> >>

\* C10: participation low gives a warning/medium engagement alert, high gives
\* a success/low engagement alert, medium gives no engagement alert.
C10_ParticipationBands ==
    pc = "done" =>
        LET level == agentInput.participation_level
            out == Outcomes(generated.alerts, "engagement")
        IN /\ level = "low" => out = << <<"warning", "medium">> >>
           /\ level = "high" => out = << <<"success", "low">> >>
           /\ level = "medium" => out = <<>>

C10_Witness ==
    /\ pc = "done"
    /\ agentInput.participation_level = "low"
    /\ Outcomes(generated.alerts, "engagement") = << <<"warning", "medium">> >>

\* position of a category in the order the rule-based generator works in
CategoryRank(category) ==
    CASE category = "attendance" -> 1
      [] category = "academic" -> 2
      [] category = "engagement" -> 3
      [] category = "general" -> 4
      [] OTHER -> 0

\* C11: the rule-based generator's output holds at most one alert of each
\* category, hence at most 4 alerts, in the order attendance, academic,
\* engagement, general; attendance 65, academic 45, participation low and
\* empty notes give exactly 3 alerts: attendance error/high, academic
\* error/high, engagement warning/medium (summary: 3 alerts, 2 of high priority).
C11_OnePerCategoryInOrder ==
    pc = "done" =>
        LET alerts == generated.alerts
        IN /\ Len(alerts) <= 4
           /\ \A i \in 1..Len(alerts) : CategoryRank(alerts[i].category) >= 1
           /\ \A i, j \in 1..Len(alerts) :
                 i < j => CategoryRank(alerts[i].category) < CategoryRank(alerts[j].category)
           /\ (/\ agentInput.attendance_percentage = 6500
               /\ agentInput.academic_performance = 4500
               /\ agentInput.participation_level = "low"
               /\ agentInput.behavior_notes = <<>>) =>
                 /\ [i \in 1..Len(alerts) |->
                        <<alerts[i].category, alerts[i].alert_type, alerts[i].priority>>]
                      = << <<"attendance", "error", "high">>,
                           <<"academic", "error", "high">>,
                           <<"engagement", "warning", "medium">> >>
                 /\ get_alert_summary(alerts).total_alerts = 3
                 /\ get_alert_summary(alerts).high_priority_count = 2

C11_Witness ==
    /\ pc = "done"
    /\ agentInput.attendance_percentage = 6500
    /\ agentInput.academic_performance = 4500
    /\ agentInput.participation_level = "low"
    /\ agentInput.behavior_notes = <<>>
    /\ Len(generated.alerts) = 3

\* the summary of no alerts
ZeroSummary ==
    [total_alerts |-> 0, high_priority_count |-> 0, action_required_count |-> 0,
     categories |-> [academic |-> 0, attendance |-> 0, engagement |-> 0, general |-> 0],
     types |-> [error |-> 0, warning |-> 0, success |-> 0, info |-> 0],
     average_confidence |-> 0]

\* C13: for every list generate_alerts returns, the summary the route computes
\* has total_alerts equal to the length of the list, high_priority_count equal
\* to the number of alerts of priority high and action_required_count equal to
\* the number of alerts with action_required set; the summary of the empty
\* list has every count and the average confidence at zero.
C13_SummaryCountsTheList ==
    /\ get_alert_summary(<<>>) = ZeroSummary
    /\ pc = "done" =>
          LET alerts == generated.alerts
              summary == get_alert_summary(alerts)
          IN /\ summary.total_alerts = Len(alerts)
             /\ summary.high_priority_count =
                    Cardinality({i \in 1..Len(alerts) : alerts[i].priority = "high"})
             /\ summary.action_required_count =
                    Cardinality({i \in 1..Len(alerts) : alerts[i].action_required})
             /\ response.status = 200 =>
                    (response.alerts = alerts /\ response.summary = summary)

C13_Witness ==
    /\ pc = "done"
    /\ agentModel
    /\ response.status = 200
    /\ Len(response.alerts) = 2
    /\ response.summary.total_alerts = 2
    /\ response.summary.high_priority_count = 1
    /\ response.summary.action_required_count = 1
    /\ response.summary.types.error = 0

\* domain data in which no metric is notable
NeutralData ==
    [academic |-> AcademicData(320, <<Subject("Art", 95, "stable")>>),
     attendance |-> AttendanceData(Pct(92), 0, 1),
     engagement |-> EngagementData(Pct(75), Pct(20), Pct(80))]

\* C14: the narrative of every result generate_insight returns is non-empty,
\* on the generative path, the rule-based path and the last-resort path; when
\* no metric is notable the rule-based narrative is the default sentence.
C14_NarrativeNeverEmpty ==
    ipc = "done" =>
        /\ insight.insight # <<>>
        /\ \A i \in 1..Len(insight.insight) : insight.insight[i].text # ""
        /\ (~imodel /\ idata = NeutralData) => insight.insight = DefaultNarrative

\* C15: every result of either insight agent, on any path and for any number
\* of declining or weak subjects, carries at most 5 recommendations.
C15_AtMostFiveRecommendations ==
    ipc = "done" => Len(insight.recommendations) <= 5

Communication == Sentence("Maintain regular communication with teachers", <<>>)
Celebration == Sentence("Celebrate achievements to maintain motivation", <<>>)

\* how many domain-specific recommendations the analysis calls for
DomainSpecific(analysis) ==
    Min2(2, Len(analysis.academic_summary.declining_subjects))
    + (IF analysis.academic_summary.weak_subjects # <<>> THEN 1 ELSE 0)
    + (IF analysis.attendance_summary.attendance_status = "needs_improvement" THEN 1 ELSE 0)
    + (IF analysis.attendance_summary.punctuality_concern THEN 1 ELSE 0)
    + (IF analysis.engagement_summary.engagement_level = "low" THEN 1 ELSE 0)
    + (IF ~analysis.engagement_summary.study_time_adequate THEN 1 ELSE 0)

\* generate_insight has returned the rule-based recommendations
RuleBasedRecommendations ==
    /\ ipc = "done"
    /\ \/ ~imodel /\ iused.academic.gpa_is_number
       \/ imodel /\ ibackend[2].kind = "raises"

\* C16: in every rule-based recommendation list each domain-specific
\* recommendation precedes each generic one, a generic one appears only when
\* fewer than 5 domain-specific ones were produced, and the list is never
\* empty; with at most 3 domain-specific ones both generic ones are present,
\* communication first and celebration second.
C16_DomainSpecificBeforeGeneric ==
    RuleBasedRecommendations =>
        LET recs == insight.recommendations
            n == DomainSpecific(Analysis(iused))
            generic == {i \in 1..Len(recs) : recs[i] \in {Communication, Celebration}}
        IN /\ recs # <<>>
           /\ \A i \in generic : \A j \in (1..Len(recs)) \ generic : j < i
           /\ generic # {} => n < 5
           /\ n <= 3 => /\ Len(recs) = n + 2
                        /\ recs[n + 1] = Communication
                        /\ recs[n + 2] = Celebration

C16_Witness ==
    /\ RuleBasedRecommendations
    /\ imodel
    /\ DomainSpecific(Analysis(iused)) = 3
    /\ Len(insight.recommendations) = 5
    /\ insight.recommendations[4] = Communication

\* C17: every alert generate_alerts returns, from the generative backend or
\* from the rules, has alert_type in {info, warning, error, success}, priority
\* in {low, medium, high}, category in {academic, attendance, engagement,
\* general} and confidence_score in [0, 1]; a generated item that breaks any of
\* these is dropped by the per-item validation.
C17_ReturnedAlertsInVocabulary ==
    pc = "done" =>
        \A i \in 1..Len(generated.alerts) :
            LET alert == generated.alerts[i]
            IN /\ alert.alert_type \in {"info", "warning", "error", "success"}
               /\ alert.priority \in {"low", "medium", "high"}
               /\ alert.category \in {"academic", "attendance", "engagement", "general"}
               /\ alert.confidence_score >= 0
               /\ alert.confidence_score <= 100

\* C18: every alert generate_alerts returns, on the generative path and on the
\* rule-based path, carries a non-empty reasoning string.
C18_EveryAlertHasReasoning ==
    pc = "done" =>
        \A i \in 1..Len(generated.alerts) : generated.alerts[i].reasoning # ""

\* the list generate_alerts returned is the backend's, not the rules'
FromBackend == agentModel /\ ~AdapterFailed

\* C19: ai_powered is true exactly when the returned alerts were produced by
\* the generative backend, and false whenever they are the rule-based output,
\* also when a configured backend failed.
C19_AiPoweredTellsThePath ==
    (pc = "done" /\ response.status = 200) => (response.ai_powered <=> FromBackend)

\* C20: with no backend configured, two calls of generate_insight with the
\* same domain data, data that is absent included, return the same narrative
\* and the same recommendations.
C20_UnconfiguredInsightIsDeterministic ==
    (ipc = "done" /\ ~imodel /\ iprev.called /\ iprev.given = idata) =>
        /\ insight.insight = iprev.insight
        /\ insight.recommendations = iprev.recommendations

(* ---------------------------------------------------------------------- *)
(* Partial success of the generative alert list                            *)

PassingIndexes(items) == {i \in 1..Len(items) : items[i].fields_ok}

\* alerts holds the passing items of the response, each once, in the response's order
IsPassingSubsequence(alerts, items) ==
    /\ Len(alerts) = Cardinality(PassingIndexes(items))
    /\ \A i \in PassingIndexes(items) :
          alerts[Cardinality({j \in PassingIndexes(items) : j <= i})] = ParseItem(items[i])

ParsedItems == IF Unfenced(backend) = "array" THEN backend.items ELSE <<>>

\* C21: when the backend's text parses and at least one item can be built,
\* generate_alerts returns exactly the items that can be built, in the
\* response's order, and nothing else; when the parsed text holds no such item
\* (an empty array included) it returns the rule-based list.
C21_PartialSuccess ==
    (pc = "done" /\ agentModel /\ backend.kind = "text" /\ Unfenced(backend) # "invalid")
    => /\ generated.exc = "none"
       /\ IF PassingIndexes(ParsedItems) # {}
          THEN IsPassingSubsequence(generated.alerts, ParsedItems)
          ELSE generated.alerts = _generate_rule_based_alerts(agentInput)

\* a response whose first item cannot be built and whose second can
C21_Witness ==
    /\ pc = "done"
    /\ agentModel
    /\ backend.kind = "text"
    /\ Unfenced(backend) = "array"
    /\ backend.items = <<ItemMissingField, ItemWarning>>
    /\ generated = Returned(<<ParseItem(ItemWarning)>>)

(* ---------------------------------------------------------------------- *)
(* One generate_insight request: AttemptGenerative, then Fallback           *)

GenerativeCallFailed == ibackend[1].kind = "raises" \/ ibackend[2].kind = "raises"

\* C22: within one generate_insight request, once a generative call has
\* failed no further generative call is made, the narrative and the
\* recommendations returned are both the rule-based generators' output, and
\* neither prompt is sent more than once.
C22_FallbackIsTerminal ==
    /\ icalls <= 2
    /\ (ibackend[1].kind = "raises" /\ ipc # "idle") => icalls <= 1
    /\ (ipc = "done" /\ imodel /\ GenerativeCallFailed)
       => /\ insight.insight = _generate_rule_based_insights(Analysis(iused))
          /\ insight.recommendations = _generate_rule_based_recommendations(Analysis(iused))

(* ---------------------------------------------------------------------- *)
(* Fixed confidences of the rule-based bands                               *)

Severity(alert_type) ==
    CASE alert_type = "error" -> 3
      [] alert_type = "warning" -> 2
      [] alert_type = "success" -> 1
      [] OTHER -> 0

\* the inputs that differ from student_data in one field
OtherBands(student_data) ==
    {[student_data EXCEPT !.attendance_percentage = v] : v \in AttendanceValues}
    \cup {[student_data EXCEPT !.academic_performance = v] : v \in AcademicValues}
    \cup {[student_data EXCEPT !.participation_level = v] : v \in ParticipationLevels}
    \cup {[student_data EXCEPT !.behavior_notes = v] : v \in BehaviorNotes}

\* C23: within each domain of the rule-based generator the confidence of a
\* more severe band (error above warning above success) is at least the
\* confidence of every less severe band of the same domain.
C23_MoreSevereAtLeastAsConfident ==
    pc = "done" =>
        \A other \in OtherBands(agentInput) :
            LET mine == generated.alerts
                theirs == _generate_rule_based_alerts(other)
            IN \A i \in 1..Len(mine) : \A j \in 1..Len(theirs) :
                  (/\ mine[i].category = theirs[j].category
                   /\ Severity(mine[i].alert_type) > Severity(theirs[j].alert_type))
                  => mine[i].confidence_score >= theirs[j].confidence_score

(* ---------------------------------------------------------------------- *)
(* Cross-domain correlation                                                *)

PositiveAttendanceNote ==
    "Strong positive correlation between attendance and academic performance"
RiskAttendanceNote == "Low attendance may be impacting academic performance"
PositiveEngagementNote == "High engagement correlates with strong academic performance"

\* C24: the correlation step emits the attendance-academic positive note
\* exactly when attendance >= 95 and gpa > 3.5, the attendance-academic risk
\* note exactly when attendance < 85 and gpa < 3.0, the engagement-academic
\* positive note exactly when engagement >= 85 and gpa > 3.5, and no note
\* otherwise; attendance = 95 and engagement = 85 are inclusive, and the two
\* attendance-academic notes never occur together.
C24_CorrelationNotes ==
    ianalysis.step = "_find_correlations" =>
        LET attendance == idata.attendance.overall_percentage
            gpa == idata.academic.overall_gpa
            engagement == idata.engagement.overall_engagement_score
            notes == ianalysis.result
        IN /\ notes.attendance_academic = PositiveAttendanceNote
                <=> (attendance >= Pct(95) /\ gpa > 350)
           /\ notes.attendance_academic = RiskAttendanceNote
                <=> (attendance < Pct(85) /\ gpa < 300)
           /\ notes.attendance_academic \in {PositiveAttendanceNote, RiskAttendanceNote, None}
           /\ notes.engagement_academic = PositiveEngagementNote
                <=> (engagement >= Pct(85) /\ gpa > 350)
           /\ notes.engagement_academic \in {PositiveEngagementNote, None}

(* ---------------------------------------------------------------------- *)
(* Attendance status of the analysis                                       *)

\* the attendance bands: critical below 75, belowOptimal from 75 and below
\* 85, acceptable from 85 and below 95, excellent from 95
AttendanceLabel(v) ==
    IF v < Pct(75) THEN "critical"
    ELSE IF v < Pct(85) THEN "belowOptimal"
    ELSE IF v < Pct(95) THEN "acceptable"
    ELSE "excellent"

\* C25: for every attendance rate the analysis's attendance status is the
\* band of the rate (critical, belowOptimal, acceptable, excellent; stated up
\* to the names of the labels: two rates get the same status exactly when
\* they lie in the same band), and punctuality_concern is true exactly when
\* late_days > 5.
C25_AttendanceStatusIsTheBand ==
    (ianalysis.step = "_analyze_student_data" /\ idata.attendance.present) =>
        LET mine == ianalysis.result.attendance_summary
        IN /\ mine.punctuality_concern <=> idata.attendance.late_days > 5
           /\ mine.attendance_status = "excellent"
                <=> AttendanceLabel(idata.attendance.overall_percentage) = "excellent"
           /\ \A other \in BoundaryAttendance \ {NoAttendance} :
                 (_analyze_attendance_patterns(other).attendance_status = mine.attendance_status)
                 <=> (AttendanceLabel(other.overall_percentage)
                        = AttendanceLabel(idata.attendance.overall_percentage))

(* ---------------------------------------------------------------------- *)
(* Academic partitions and the aggregate trend                             *)

Listed(name, names) == \E k \in 1..Len(names) : names[k] = name

\* C26: for every list of subjects the academic analysis places a subject in
\* strong iff its percentage >= 90, in weak iff its percentage < 75, in
\* improving iff its trend is up and in declining iff its trend is down (a
\* subject may be in a score partition and a trend partition at once); the
\* aggregate academic trend is declining iff more subjects decline than
\* improve, improving iff more improve than decline, and stable when the
\* counts are equal.
C26_AcademicPartitionsAndTrend ==
    (ianalysis.step = "_analyze_student_data" /\ idata.academic.present) =>
        LET subjects == idata.academic.subjects
            summary == ianalysis.result.academic_summary
            declining == Cardinality({i \in 1..Len(subjects) : subjects[i].trend = "down"})
            improving == Cardinality({i \in 1..Len(subjects) : subjects[i].trend = "up"})
        IN /\ \A i \in 1..Len(subjects) :
                 /\ Listed(subjects[i].subject, summary.strong_subjects)
                      <=> subjects[i].percentage >= 90
                 /\ Listed(subjects[i].subject, summary.weak_subjects)
                      <=> subjects[i].percentage < 75
                 /\ Listed(subjects[i].subject, summary.improving_subjects)
                      <=> subjects[i].trend = "up"
                 /\ Listed(subjects[i].subject, summary.declining_subjects)
                      <=> subjects[i].trend = "down"
           /\ ianalysis.result.trends.academic_trend =
                 (IF declining > improving THEN "declining"
                  ELSE IF improving > declining THEN "improving"
                  ELSE "stable")

(* ---------------------------------------------------------------------- *)
(* action_required and priority of the rule-based alerts                   *)

\* C27: in every rule-based alert list action_required is false for exactly
\* the success alerts and true for every error and warning alert, every
\* success alert has priority low, and every high-priority alert has
\* action_required true; attendance 98, academic 92, participation high and
\* the notes "excellent and respectful" give 4 success alerts of low
\* priority (attendance, academic, engagement, general), none requiring action.
C27_ActionRequiredFollowsType ==
    pc = "done" =>
        LET alerts == generated.alerts
        IN /\ \A i \in 1..Len(alerts) :
                 /\ alerts[i].alert_type \in {"error", "warning", "success"}
                 /\ alerts[i].action_required <=> alerts[i].alert_type # "success"
                 /\ alerts[i].alert_type = "success" => alerts[i].priority = "low"
                 /\ alerts[i].priority = "high" => alerts[i].action_required
           /\ (/\ agentInput.attendance_percentage = Pct(98)
               /\ agentInput.academic_performance = Pct(92)
               /\ agentInput.participation_level = "high"
               /\ agentInput.behavior_notes = ExcellentAndRespectful)
              => [i \in 1..Len(alerts) |->
                    <<alerts[i].category, alerts[i].alert_type, alerts[i].priority,
                      alerts[i].action_required>>]
                 = << <<"attendance", "success", "low", FALSE>>,
                      <<"academic", "success", "low", FALSE>>,
                      <<"engagement", "success", "low", FALSE>>,
                      <<"general", "success", "low", FALSE>> >>

C27_Witness ==
    /\ pc = "done"
    /\ agentInput.attendance_percentage = Pct(98)
    /\ agentInput.academic_performance = Pct(92)
    /\ agentInput.participation_level = "high"
    /\ agentInput.behavior_notes = ExcellentAndRespectful
    /\ Len(generated.alerts) = 4

(* ---------------------------------------------------------------------- *)
(* The order of a parent's alerts                                          *)

PriorityLevel(priority) ==
    CASE priority = "high" -> 3
      [] priority = "medium" -> 2
      [] priority = "low" -> 1
      [] OTHER -> 0

\* C28: get_alerts_by_parent returns the parent's alerts with the alerts of
\* high priority first, then medium, then low, and the newest first among
\* alerts of equal priority, whatever is stored and whatever the skip/limit
\* window.
C28_HighPriorityFirst ==
    sreply.op = "get_alerts_by_parent" =>
        LET alerts == sreply.alerts
        IN /\ \A i \in 1..Len(alerts) : alerts[i].parent_id = sreply.user
           /\ \A i, j \in 1..Len(alerts) :
                 i < j =>
                    \/ PriorityLevel(alerts[i].priority) > PriorityLevel(alerts[j].priority)
                    \/ /\ alerts[i].priority = alerts[j].priority
                       /\ alerts[i].created_at >= alerts[j].created_at

(* ---------------------------------------------------------------------- *)
(* Generate-and-save                                                       *)

SavedByRun == {d \in store : d.id > sreply.before}

\* C29: the generate-and-save operation is all-or-nothing: after any run it
\* has either stored every generated alert and reported success, or stored
\* none of them and reported failure; a failure while saving one alert never
\* leaves only the alerts before it stored.
C29_SaveIsAllOrNothing ==
    sreply.op = "generate_and_save" =>
        \/ sreply.status = 200 /\ Cardinality(SavedByRun) = Len(sreply.generated)
        \/ sreply.status = 500 /\ SavedByRun = {}

(* ---------------------------------------------------------------------- *)
(* Ownership of the alerts that are marked and deleted                     *)

\* C30: mark_alert_as_read and delete_alert change or remove an alert only
\* when its parent_id is the caller's parent id; called for an alert of
\* another parent, for an unknown id or for a string that is no id, they
\* leave the whole collection as it is and return false.
C30_OnlyTheOwnerChangesAnAlert ==
    [][sreply'.op \in {"mark_alert_as_read", "delete_alert"} =>
          LET owned == {d \in store : d.id = sreply'.alert_id /\ d.parent_id = sreply'.user}
          IN /\ \A d \in store \ owned : d \in store'
             /\ \A d \in store' \ store : \E e \in owned : e.id = d.id
             /\ owned = {} => (store' = store /\ sreply'.result = FALSE)]_vars

\* a parent has tried to mark another parent's unread alert: it is unread still
C30_Witness ==
    /\ sreply.op = "mark_alert_as_read"
    /\ sreply.result = FALSE
    /\ \E d \in store : d.id = sreply.alert_id /\ d.parent_id # sreply.user /\ ~d.read

============================================================================
